---- MODULE Spec2Model ----
(***************************************************************************)
(* Model of the signal generation + filtering core of AI-Stock.            *)
(*                                                                         *)
(*   SignalFilter   src/ai_stock/signals/filters/signal_filter.py          *)
(*   validation     src/ai_stock/utils/validation_utils.py                 *)
(*   generators     src/ai_stock/signals/generators/*.py                   *)
(*                                                                         *)
(* Number representation.  Python floats are modelled by exact integers:   *)
(*   confidence   in hundredths          (0.70  -> 70)                     *)
(*   price        in thousandths         (100.0 -> 100000, 0.005 -> 5)     *)
(*   clock        in whole seconds       (time.time())                     *)
(*   timestamp    in milliseconds        (Signal.timestamp)                *)
(* Comparisons of the source are kept, with both sides scaled alike.       *)
(* Optional[...] values are sequences of length <= 1 (<<>> is None).       *)
(* Symbols are sequences of one-character strings.                         *)
(***************************************************************************)
EXTENDS Integers, Sequences, FiniteSets, TLC

\* ------------------------------------------------------------------ bounds
\* clock value at construction; any real epoch clock is far above every
\* configured cooldown, which is all the model needs of it
StartTime == 1200
\* the clock advances in steps of TickStep seconds, up to MaxTime
TickStep == 300
MaxTicks == 2
MaxTime == StartTime + MaxTicks * TickStep
\* calendar days seen after construction
MaxDay == 1
\* candidates in one filter_signals call, and processed over a whole run
MaxBatch == 2
MaxProcessed == 2
\* size of the batch, and largest per-symbol cap, where post-processing is
\* exercised
MaxPostBatch == 5
MaxCap == 3
\* number of reset_stats calls
MaxResets == 2
\* number of acceptances after which the feed that fills the history stops
HistoryRun == 1003
\* candidates in one filter_signals call, and over a run, where the cooldown
\* inside a batch is exercised
CooldownBatch == 3
\* candidates processed over a run where the statistics are audited
AccountingRun == 3
\* number of calls made on a strategy
MaxStrategyCalls == 5
\* number of send_with_retry calls on a channel
MaxSends == 2
\* number of clear_history calls, and candidates processed around them
MaxClears == 2
ClearRun == 3
MaxSeries == 5
MaxPeriod == 3

\* ------------------------------------------------------- generic helpers
None == <<>>
Some(v) == <<v>>
IsNone(o) == o = <<>>
Val(o) == o[1]
\* Python truthiness of an Optional[number]
Truthy(o) == o # <<>> /\ Val(o) # 0

Abs(x) == IF x < 0 THEN -x ELSE x
Min(a, b) == IF a <= b THEN a ELSE b

\* dict.get(key, default)
DictGet(d, k, default) == IF k \in DOMAIN d THEN d[k] ELSE default

\* list[-n:]
Tail_n(seq, n) ==
    IF Len(seq) <= n THEN seq ELSE SubSeq(seq, Len(seq) - n + 1, Len(seq))

\* list[:n]  (n >= 0; a negative n is Python's list[:n], dropping -n items)
Head_n(seq, n) ==
    IF n >= 0
    THEN (IF Len(seq) <= n THEN seq ELSE SubSeq(seq, 1, n))
    ELSE (IF Len(seq) + n <= 0 THEN <<>> ELSE SubSeq(seq, 1, Len(seq) + n))

\* ------------------------------------------------------------- symbols
AAA == <<"A", "A", "A">>
BBB == <<"B", "B", "B">>
aaa == <<"a", "a", "a">>
BadSym == <<"A", "!">>

UpperChar(c) ==
    CASE c = "a" -> "A"
      [] c = "b" -> "B"
      [] OTHER -> c

\* str.upper()
Upper(sym) == [i \in 1..Len(sym) |-> UpperChar(sym[i])]

SymbolMinLen == 3
SymbolMaxLen == 20
PatternChars == {"A", "B", "C", "0", "1", "2", "3", "4", "5", "6", "7", "8", "9"}

\* ValidationUtils.validate_symbol: ^[A-Z0-9]{3,20}$ on symbol.upper()
validate_symbol(sym) ==
    /\ Len(sym) > 0
    /\ Len(sym) >= SymbolMinLen
    /\ Len(sym) <= SymbolMaxLen
    /\ \A i \in 1..Len(sym) : UpperChar(sym[i]) \in PatternChars

\* ValidationUtils.validate_price: float(price) > 0
validate_price(price) == price > 0

\* ValidationUtils.validate_volume: float(volume) >= 0
validate_volume(volume) == volume >= 0

\* variant: no upper limit
validate_confidence_unbounded(confidence) == 0 <= confidence

\* ValidationUtils.validate_confidence: 0.0 <= conf <= 1.0
validate_confidence(confidence) == 0 <= confidence /\ confidence <= 100

\* ValidationUtils.validate_timestamp: within [1970, 2100]; the upper end
\* (4102444800000 ms) lies beyond every clock value of the model
validate_timestamp(ts) == 0 <= ts

OrderSides == {"BUY", "SELL"}
SignalStrengths == {"STRONG", "MODERATE", "WEAK"}

\* ValidationUtils.validate_signal: the list of error messages.
\* Only called for signals whose fields have the declared types
\* (see validate_signal_basic for the others).
validate_signal(signal) ==
    (IF signal.id = "" THEN <<"id">> ELSE <<>>)
    \o (IF ~validate_symbol(signal.symbol) THEN <<"symbol">> ELSE <<>>)
    \o (IF signal.side \notin OrderSides THEN <<"side">> ELSE <<>>)
    \o (IF ~validate_price(signal.price) THEN <<"price">> ELSE <<>>)
    \o (IF ~validate_confidence(signal.confidence) THEN <<"confidence">> ELSE <<>>)
    \o (IF signal.reason = "" THEN <<"reason">> ELSE <<>>)
    \o (IF signal.strength \notin SignalStrengths THEN <<"strength">> ELSE <<>>)
    \o (IF signal.timestamp # 0 /\ ~validate_timestamp(signal.timestamp)
        THEN <<"timestamp">> ELSE <<>>)
    \o (IF ~IsNone(signal.stop_loss) /\ ~validate_price(Val(signal.stop_loss))
        THEN <<"stop_loss">> ELSE <<>>)
    \o (IF ~IsNone(signal.take_profit) /\ ~validate_price(Val(signal.take_profit))
        THEN <<"take_profit">> ELSE <<>>)
    \o (IF ~IsNone(signal.volume) /\ ~validate_volume(Val(signal.volume))
        THEN <<"volume">> ELSE <<>>)
    \o (IF signal.side = "BUY"
        THEN (IF Truthy(signal.stop_loss) /\ Val(signal.stop_loss) >= signal.price
              THEN <<"buy_stop_loss">> ELSE <<>>)
             \o (IF Truthy(signal.take_profit) /\ Val(signal.take_profit) <= signal.price
                 THEN <<"buy_take_profit">> ELSE <<>>)
        ELSE (IF Truthy(signal.stop_loss) /\ Val(signal.stop_loss) <= signal.price
              THEN <<"sell_stop_loss">> ELSE <<>>)
             \o (IF Truthy(signal.take_profit) /\ Val(signal.take_profit) >= signal.price
                 THEN <<"sell_take_profit">> ELSE <<>>))

\* --------------------------------------------------------------- signals
\* Signal dataclass (core/types.py).  malformed = TRUE stands for a signal
\* with a field of a type the ordering checks of validate_signal cannot
\* compare (a textual stop_loss), on which validate_signal raises TypeError.
MkSignal(id, symbol, side, price, confidence, strength, timestamp) ==
    [id |-> id, symbol |-> symbol, side |-> side, price |-> price,
     confidence |-> confidence, reason |-> "r", strength |-> strength,
     timestamp |-> timestamp, stop_loss |-> None, take_profit |-> None,
     volume |-> None, malformed |-> FALSE]

\* well-formed candidates created `age` seconds before clock value t
ValidCandidates(t) ==
    { MkSignal("a1", AAA, "BUY", 100000, 70, "MODERATE", t * 1000),
      MkSignal("a2", AAA, "BUY", 100500, 75, "MODERATE", t * 1000),
      MkSignal("a3", AAA, "BUY", 103000, 70, "MODERATE", t * 1000),
      MkSignal("a4", AAA, "BUY", 100000, 95, "STRONG", t * 1000),
      MkSignal("a6", AAA, "BUY", 100000, 70, "MODERATE", (t - 900) * 1000),
      MkSignal("a7", AAA, "BUY", 100000, 30, "WEAK", t * 1000),
      MkSignal("a8", AAA, "BUY", 5, 70, "MODERATE", t * 1000),
      MkSignal("b1", BBB, "SELL", 200000, 90, "STRONG", t * 1000) }

Base(t) == MkSignal("x", AAA, "BUY", 100000, 70, "MODERATE", t * 1000)

\* candidates violating one structural invariant each
InvalidCandidates(t) ==
    { [Base(t) EXCEPT !.side = "HOLD"],
      [Base(t) EXCEPT !.strength = "NONE"],
      [Base(t) EXCEPT !.price = 0],
      [Base(t) EXCEPT !.confidence = 150],
      [Base(t) EXCEPT !.confidence = -10],
      [Base(t) EXCEPT !.stop_loss = Some(100000)],
      [Base(t) EXCEPT !.take_profit = Some(99000)],
      [Base(t) EXCEPT !.side = "SELL", !.stop_loss = Some(99000)],
      [Base(t) EXCEPT !.side = "SELL", !.take_profit = Some(100000)],
      [Base(t) EXCEPT !.side = "SELL", !.stop_loss = Some(0)],
      [Base(t) EXCEPT !.symbol = BadSym],
      [Base(t) EXCEPT !.malformed = TRUE] }

\* the candidates of the general specification, and those of the
\* specification that exercises structural validation
Candidates(t) ==
    ValidCandidates(t)
        \cup { [Base(t) EXCEPT !.side = "HOLD"], [Base(t) EXCEPT !.malformed = TRUE] }

ValidationCandidates(t) ==
    InvalidCandidates(t) \cup { Base(t), MkSignal("b1", BBB, "SELL", 200000, 90, "STRONG", t * 1000) }

\* candidates no two of which are similar: five for one symbol, prices about
\* 2% apart, two of them of equal confidence, and one for another symbol
PostCandidates(t) ==
    { MkSignal("q1", AAA, "BUY", 100000, 60, "MODERATE", t * 1000),
      MkSignal("q2", AAA, "BUY", 102000, 90, "STRONG", t * 1000),
      MkSignal("q3", AAA, "BUY", 104100, 75, "MODERATE", t * 1000),
      MkSignal("q4", AAA, "BUY", 106300, 90, "STRONG", t * 1000),
      MkSignal("q5", AAA, "BUY", 108500, 65, "MODERATE", t * 1000),
      MkSignal("q6", BBB, "SELL", 200000, 80, "STRONG", t * 1000) }

\* accepted signals that stand between two AAA candidates: the i-th is for a
\* symbol of its own and so similar to no other candidate
Digit(d) == <<"0", "1", "2", "3", "4", "5", "6", "7", "8", "9">>[d + 1]

FillerSymbol(i) == <<"C", Digit((i \div 10) % 10), Digit(i % 10)>>

Filler(i, t) ==
    MkSignal("f", FillerSymbol(i), "SELL", 50000, 80, "STRONG", t * 1000)

\* ------------------------------------------------------------ market data
\* Kline: only close and volume are read by the filter; volume None stands
\* for a malformed bar, on which the comparison with min_volume raises.
MkKline(close, volume) == [close |-> close, volume |-> volume]

Bars(n, close, volume) == [i \in 1..n |-> MkKline(close, volume)]

\* the market_data argument of filter_signals: symbol -> klines
MarketInputs ==
    { <<>>,
      (AAA :> Bars(1, 100000, Some(500))) @@ (BBB :> <<>>),
      (AAA :> Bars(12, 100000, Some(2000))) @@ (BBB :> Bars(1, 200000, None)) }

\* n bars whose closes double and halve in turn
Swinging(n) ==
    [i \in 1..n |-> MkKline(IF i % 2 = 0 THEN 200000 ELSE 100000, Some(2000))]

\* market data with too few, calm and swinging closes
VolMarketInputs ==
    { <<>>,
      (AAA :> Bars(9, 100000, Some(2000))),
      (AAA :> Bars(12, 100000, Some(2000))),
      (AAA :> Swinging(9)),
      (AAA :> Swinging(12)),
      (AAA :> Swinging(25)) }

\* ---------------------------------------------------------- configuration
\* constructor arguments (config.get(key, default) already resolved)
MkConfig(conf, cap, cooldown, daily, vol_on, daily_on, blacklist) ==
    [min_confidence |-> conf, max_signals_per_symbol |-> cap,
     signal_cooldown |-> cooldown, min_volume |-> 1000, min_price |-> 10,
     volatility_threshold |-> 10, max_daily_signals |-> daily,
     volatility_filter_enabled |-> vol_on, daily_limit_enabled |-> daily_on,
     blacklist_symbols |-> blacklist]

\* configured daily limit used by the model (the default is 20)
DailyLimit == 1

InitConfigs ==
    { MkConfig(50, 3, 300, DailyLimit, TRUE, TRUE, {}),
      MkConfig(50, 1, 0, DailyLimit, FALSE, TRUE, {BBB}) }

\* no cooldown, the default daily limit of 20, every per-symbol cap
PostConfigs ==
    { MkConfig(50, cap, 0, 20, FALSE, TRUE, {}) : cap \in 0..MaxCap }

\* the volatility rule enabled, no cooldown
VolConfigs == { MkConfig(50, 3, 0, 20, TRUE, TRUE, {}) }

\* the configuration key that a rule's switch is read from, for the two
\* rules that have one (_initialize_filter_rules), and the key of the same
\* form for the six rules whose `enabled` is the literal True
ToggleKey(name) ==
    CASE name = "confidence_filter" -> "confidence_filter_enabled"
      [] name = "cooldown_filter" -> "cooldown_filter_enabled"
      [] name = "volume_filter" -> "volume_filter_enabled"
      [] name = "price_filter" -> "price_filter_enabled"
      [] name = "volatility_filter" -> "volatility_filter_enabled"
      [] name = "blacklist_filter" -> "blacklist_filter_enabled"
      [] name = "duplicate_filter" -> "duplicate_filter_enabled"
      [] name = "daily_limit_filter" -> "daily_limit_enabled"

AllRuleNames ==
    { "confidence_filter", "cooldown_filter", "volume_filter", "price_filter",
      "volatility_filter", "blacklist_filter", "duplicate_filter",
      "daily_limit_filter" }

\* config mappings that switch one rule off each, and one that switches
\* none off
ToggleConfigs ==
    { (ToggleKey(name) :> FALSE) @@ MkConfig(50, 3, 300, DailyLimit, TRUE, TRUE, {BBB}) :
        name \in AllRuleNames }
    \cup { MkConfig(50, 3, 300, DailyLimit, TRUE, TRUE, {BBB}) }

\* no cooldown and no daily limit: acceptances without end
HistoryConfigs == { MkConfig(50, 3, 0, 20, FALSE, FALSE, {}) }

\* an empty blacklist, no cooldown
BlacklistConfigs == { MkConfig(50, 3, 0, 20, FALSE, TRUE, {}) }

\* no cooldown, and a daily limit that a long run of acceptances stays below
DupConfigs == { MkConfig(50, 3, 0, 100, FALSE, TRUE, {}) }

\* ------------------------------------------------------ program constants
HistoryMax == 1000
HistoryKeep == 500
DupLookback == 50
DupWindow == 600

\* ------------------------------------------------------------------ state
VARIABLES
    \* the environment: time.time() and datetime.now().date()
    now, today,
    \* SignalFilter fields
    config, min_confidence, max_signals_per_symbol, signal_cooldown,
    market_filters, risk_filters,
    signal_history, symbol_last_signal, daily_signal_count, last_reset_date,
    filter_rules, stats,
    \* the running filter_signals call: position, candidates still to come,
    \* its locals filtered_signals and context
    pc, remaining, filtered_signals, context,
    \* what the caller and the log saw last: the value returned by the last
    \* call, and for the candidate handled last in the running call the
    \* candidate, its position in the batch, its verdict, the reason logged
    \* and the rules run
    returned, last_eval,
    \* number of candidates handed to filter_signals so far (bounds the run)
    submitted,
    \* number of candidates accepted since the calendar date last changed
    accepted_today,
    \* TradingSignalGenerator fields
    gen_last_signal_time, gen_signal_history, gen_market_data_cache, gen_stats,
    \* how the last generate_signals call ended: not called yet, with a list,
    \* or with an exception reaching the caller, and what it was called for
    gen_result,
    \* the symbols handed to add_blacklist_symbol and not handed to
    \* remove_blacklist_symbol since, as the caller wrote them
    blacklist_requests,
    \* the signals accepted by the filter so far and the signals emitted by
    \* the generator so far, in the order of acceptance
    accepted_log, gen_accepted_log,
    \* a second SignalFilter: whether it was constructed from the very
    \* mapping the first was constructed from, its config attribute, its rule
    \* list, and the mapping its own constructor argument and its own
    \* update_config calls amount to
    same_mapping, peer_config, peer_filter_rules, peer_own_config,
    \* what the caller holds: the value get_stats returned last and the
    \* value get_blacklist returned last (each with whether it is an object
    \* of the filter itself and whether the caller has written to it), and
    \* the number of reset_stats calls so far
    stats_view, blacklist_view, resets,
    \* TechnicalSignalGenerator (it has no fields that change): how its last
    \* generate_signals call ended and what it was called with
    tech_result,
    \* MathUtils and the crossover builders (pure functions): the last call
    \* of each, its arguments and what it returned
    sma_call, macd_call, crossover_call,
    \* observer: candidates processed since construction or the last
    \* reset_stats that did not get past structural validation
    invalid_seen,
    \* observer: the latest filter_signals call was one with an empty list
    last_call_empty,
    \* observer: the number of clear_history calls so far
    history_clears,
    \* BaseStrategy: state, _init_promise (None is FALSE), whether
    \* do_initialize is suspended in on_initialize; observers: how often
    \* do_initialize has been entered, and the latest call
    strategy_state, init_promise, init_awaiting, init_runs, strategy_call,
    \* BaseNotificationChannel: is_enabled, status, statistics, error_count,
    \* max_retries; the position of send_with_retry and its loop variable;
    \* observer: what the current or latest send_with_retry call has done
    is_enabled, channel_status, statistics, error_count, max_retries,
    send_pc, attempt, send_call

envVars == <<now, today>>
configVars == <<config, min_confidence, max_signals_per_symbol, signal_cooldown,
                market_filters, risk_filters, filter_rules>>
signalState == <<signal_history, symbol_last_signal, daily_signal_count>>
callVars == <<pc, remaining, filtered_signals, context>>
genVars == <<gen_last_signal_time, gen_signal_history, gen_market_data_cache,
             gen_stats, gen_result>>
callerVars == <<blacklist_requests>>
logVars == <<accepted_log, gen_accepted_log>>
viewVars == <<stats_view, blacklist_view, resets>>
techVars == <<tech_result>>
calcVars == <<sma_call, macd_call, crossover_call>>
auditVars == <<invalid_seen, last_call_empty>>
clearVars == <<history_clears>>
strategyVars == <<strategy_state, init_promise, init_awaiting, init_runs,
                  strategy_call>>
channelVars == <<is_enabled, channel_status, statistics, error_count,
                 max_retries, send_pc, attempt, send_call>>
peerVars == <<same_mapping, peer_config, peer_filter_rules, peer_own_config>>
filterVars == <<config, min_confidence, max_signals_per_symbol,
                signal_cooldown, market_filters, risk_filters, signal_history,
                symbol_last_signal, daily_signal_count, last_reset_date,
                filter_rules, stats, pc, remaining, filtered_signals, context,
                returned, last_eval, submitted, accepted_today>>
vars == <<now, today, config, min_confidence, max_signals_per_symbol,
          signal_cooldown, market_filters, risk_filters, signal_history,
          symbol_last_signal, daily_signal_count, last_reset_date,
          filter_rules, stats, pc, remaining, filtered_signals, context,
          returned, last_eval, submitted, accepted_today,
          gen_last_signal_time, gen_signal_history, gen_market_data_cache,
          gen_stats, gen_result, blacklist_requests, accepted_log,
          gen_accepted_log, same_mapping, peer_config, peer_filter_rules,
          peer_own_config, stats_view, blacklist_view, resets, tech_result,
          sma_call, macd_call, crossover_call, invalid_seen,
          last_call_empty, history_clears, strategy_state, init_promise,
          init_awaiting, init_runs, strategy_call, is_enabled,
          channel_status, statistics, error_count, max_retries, send_pc,
          attempt, send_call>>

\* ------------------------------------------------------------ filter rules
\* FilterRule entries of _initialize_filter_rules, in the order listed there
RuleTable(cfg) ==
    << [name |-> "confidence_filter", enabled |-> TRUE, priority |-> 1],
       [name |-> "cooldown_filter", enabled |-> TRUE, priority |-> 2],
       [name |-> "volume_filter", enabled |-> TRUE, priority |-> 3],
       [name |-> "price_filter", enabled |-> TRUE, priority |-> 4],
       [name |-> "volatility_filter", enabled |-> cfg.volatility_filter_enabled,
        priority |-> 5],
       [name |-> "blacklist_filter", enabled |-> TRUE, priority |-> 6],
       [name |-> "duplicate_filter", enabled |-> TRUE, priority |-> 7],
       [name |-> "daily_limit_filter", enabled |-> cfg.daily_limit_enabled,
        priority |-> 8] >>

\* insert rule r into a priority-sorted list, after every entry of equal
\* priority (sorted() is stable)
RECURSIVE InsertByPriority(_, _)
InsertByPriority(r, sorted) ==
    IF sorted = <<>> THEN <<r>>
    ELSE IF r.priority < Head(sorted).priority THEN <<r>> \o sorted
    ELSE <<Head(sorted)>> \o InsertByPriority(r, Tail(sorted))

\* sorted(rules, key=priority)
RECURSIVE SortByPriority(_)
SortByPriority(rules) ==
    IF rules = <<>> THEN <<>>
    ELSE InsertByPriority(rules[Len(rules)],
                          SortByPriority(SubSeq(rules, 1, Len(rules) - 1)))

\* variant: the enabled rules sorted by descending priority
RECURSIVE Reversed(_)
Reversed(seq) ==
    IF seq = <<>> THEN <<>> ELSE Append(Reversed(Tail(seq)), Head(seq))

initialize_filter_rules_descending(cfg) ==
    Reversed(SortByPriority(SelectSeq(RuleTable(cfg), LAMBDA r : r.enabled)))

\* _initialize_filter_rules: the enabled rules, ascending by priority
initialize_filter_rules(cfg) ==
    SortByPriority(SelectSeq(RuleTable(cfg), LAMBDA r : r.enabled))

\* outcome of one rule on one signal
Accept == [ok |-> TRUE, reason |-> "none", raised |-> FALSE]
Reject(reason) == [ok |-> FALSE, reason |-> reason, raised |-> FALSE]
Raise == [ok |-> FALSE, reason |-> "none", raised |-> TRUE]

filter_by_confidence(signal, ctx) ==
    IF signal.confidence < min_confidence THEN Reject("low_confidence") ELSE Accept

\* variant: a candidate is still rejected when exactly signal_cooldown
\* seconds have passed
filter_by_cooldown_inclusive(signal, ctx) ==
    LET last_signal_time == DictGet(symbol_last_signal, signal.symbol, 0)
    IN IF ctx.current_time - last_signal_time <= signal_cooldown
       THEN Reject("cooldown") ELSE Accept

filter_by_cooldown(signal, ctx) ==
    LET last_signal_time == DictGet(symbol_last_signal, signal.symbol, 0)
    IN IF ctx.current_time - last_signal_time < signal_cooldown
       THEN Reject("cooldown") ELSE Accept

filter_by_volume(signal, ctx) ==
    IF signal.symbol \notin DOMAIN ctx.market_data THEN Accept
    ELSE LET klines == ctx.market_data[signal.symbol] IN
         IF klines = <<>> THEN Accept
         ELSE LET latest_kline == klines[Len(klines)] IN
              IF IsNone(latest_kline.volume) THEN Raise
              ELSE IF Val(latest_kline.volume) < market_filters.min_volume
                   THEN Reject("low_volume") ELSE Accept

filter_by_price(signal, ctx) ==
    IF signal.price < market_filters.min_price THEN Reject("low_price") ELSE Accept

\* MathUtils.calculate_volatility: one value per window of `period` returns,
\* none when len(prices) < period + 1.  The values (annualised standard
\* deviation of log returns) are not computed here; the per-cent range of
\* the window stands for them.
WindowRange(prices, lo, hi) ==
    LET vals == { prices[i] : i \in lo..hi }
        mx == CHOOSE v \in vals : \A w \in vals : w <= v
        mn == CHOOSE v \in vals : \A w \in vals : v <= w
    IN ((mx - mn) * 100) \div mn

calculate_volatility(prices, period) ==
    IF Len(prices) < period + 1 THEN <<>>
    ELSE [k \in 1..(Len(prices) - period) |-> WindowRange(prices, k, k + period)]

VolatilityLookback == 20
VolatilityMinBars == 10

filter_by_volatility(signal, ctx) ==
    IF signal.symbol \notin DOMAIN ctx.market_data THEN Accept
    ELSE LET klines == ctx.market_data[signal.symbol] IN
         IF klines = <<>> THEN Accept
         ELSE LET recent == Tail_n(klines, VolatilityLookback)
                  prices == [i \in 1..Len(recent) |-> recent[i].close]
              IN IF Len(prices) < VolatilityMinBars THEN Accept
                 ELSE LET volatility == calculate_volatility(prices, Len(prices)) IN
                      IF volatility = <<>> THEN Accept
                      ELSE IF volatility[Len(volatility)]
                                > market_filters.volatility_threshold
                           THEN Reject("high_volatility") ELSE Accept

filter_by_blacklist(signal, ctx) ==
    IF signal.symbol \in risk_filters.blacklist_symbols
    THEN Reject("blacklisted") ELSE Accept

\* _are_signals_similar: price_diff = |p1 - p2| / p2 > 0.01 and
\* confidence_diff = |c1 - c2| > 0.1 rule similarity out
are_signals_similar(signal1, signal2) ==
    /\ signal1.symbol = signal2.symbol
    /\ signal1.side = signal2.side
    /\ ~(Abs(signal1.price - signal2.price) * 100 > signal2.price)
    /\ ~(Abs(signal1.confidence - signal2.confidence) > 10)

\* the list context["signal_history"] refers to: self._signal_history itself
\* until _update_signal_state rebinds that attribute to a trimmed copy
ContextHistory(ctx) == IF ctx.aliased THEN signal_history ELSE ctx.signal_history

\* variant: every one of the last 50 entries is compared, whatever its age
filter_duplicates_unwindowed(signal, ctx) ==
    LET recent == Tail_n(ContextHistory(ctx), DupLookback) IN
    IF \E i \in 1..Len(recent) : are_signals_similar(signal, recent[i])
    THEN Reject("duplicate") ELSE Accept

\* _filter_duplicates: timestamp is in ms, current_time in s
filter_duplicates(signal, ctx) ==
    LET recent == Tail_n(ContextHistory(ctx), DupLookback) IN
    IF \E i \in 1..Len(recent) :
          /\ ~(ctx.current_time * 1000 - recent[i].timestamp > DupWindow * 1000)
          /\ are_signals_similar(signal, recent[i])
    THEN Reject("duplicate") ELSE Accept

\* variant: the limit is reached one acceptance too late
filter_by_daily_limit_late(signal, ctx) ==
    IF daily_signal_count > risk_filters.max_daily_signals
    THEN Reject("daily_limit") ELSE Accept

filter_by_daily_limit(signal, ctx) ==
    IF daily_signal_count >= risk_filters.max_daily_signals
    THEN Reject("daily_limit") ELSE Accept

\* rule.filter_func(signal, context)
filter_func(name, signal, ctx) ==
    CASE name = "confidence_filter" -> filter_by_confidence(signal, ctx)
      [] name = "cooldown_filter" -> filter_by_cooldown(signal, ctx)
      [] name = "volume_filter" -> filter_by_volume(signal, ctx)
      [] name = "price_filter" -> filter_by_price(signal, ctx)
      [] name = "volatility_filter" -> filter_by_volatility(signal, ctx)
      [] name = "blacklist_filter" -> filter_by_blacklist(signal, ctx)
      [] name = "duplicate_filter" -> filter_duplicates(signal, ctx)
      [] name = "daily_limit_filter" -> filter_by_daily_limit(signal, ctx)

\* _apply_filter_rules: passed, the reason logged by the rejecting rule
\* ("none" when a rule raised or none rejected), and the rules run
RECURSIVE ApplyFrom(_, _, _, _)
ApplyFrom(rules, i, signal, ctx) ==
    IF i > Len(rules)
    THEN [passed |-> TRUE, reason |-> "none", raised |-> FALSE, evaluated |-> <<>>]
    ELSE LET r == filter_func(rules[i].name, signal, ctx) IN
         IF r.raised \/ ~r.ok
         THEN [passed |-> FALSE, reason |-> r.reason, raised |-> r.raised,
               evaluated |-> <<rules[i].name>>]
         ELSE LET rest == ApplyFrom(rules, i + 1, signal, ctx) IN
              [rest EXCEPT !.evaluated = <<rules[i].name>> \o @]

\* variant: a rule that raises is skipped
RECURSIVE ApplyFromFailOpen(_, _, _, _)
ApplyFromFailOpen(rules, i, signal, ctx) ==
    IF i > Len(rules)
    THEN [passed |-> TRUE, reason |-> "none", raised |-> FALSE, evaluated |-> <<>>]
    ELSE LET r == filter_func(rules[i].name, signal, ctx) IN
         IF ~r.raised /\ ~r.ok
         THEN [passed |-> FALSE, reason |-> r.reason, raised |-> FALSE,
               evaluated |-> <<rules[i].name>>]
         ELSE LET rest == ApplyFromFailOpen(rules, i + 1, signal, ctx) IN
              [rest EXCEPT !.evaluated = <<rules[i].name>> \o @]

apply_filter_rules_fail_open(signal, ctx) ==
    ApplyFromFailOpen(filter_rules, 1, signal, ctx)

apply_filter_rules(signal, ctx) == ApplyFrom(filter_rules, 1, signal, ctx)

\* variant: every candidate gets past validation
validate_signal_basic_lenient(signal) == "ok"

\* _validate_signal_basic: "ok", or the reason logged
validate_signal_basic(signal) ==
    IF signal.malformed THEN "validation_error"
    ELSE IF validate_signal(signal) # <<>> THEN "validation_failed"
    ELSE "ok"

\* ---------------------------------------------------------- post-processing
\* list.sort(key=confidence, reverse=True) is stable: an element goes after
\* every element of greater or equal confidence that preceded it
RECURSIVE InsertDesc(_, _)
InsertDesc(x, sorted) ==
    IF sorted = <<>> THEN <<x>>
    ELSE IF x.confidence > Head(sorted).confidence THEN <<x>> \o sorted
    ELSE <<Head(sorted)>> \o InsertDesc(x, Tail(sorted))

RECURSIVE SortByConfidenceDesc(_)
SortByConfidenceDesc(signals) ==
    IF signals = <<>> THEN <<>>
    ELSE InsertDesc(signals[Len(signals)],
                    SortByConfidenceDesc(SubSeq(signals, 1, Len(signals) - 1)))

\* keys of symbol_groups in insertion order
RECURSIVE SymbolOrder(_)
SymbolOrder(signals) ==
    IF signals = <<>> THEN <<>>
    ELSE LET rest == SymbolOrder(SubSeq(signals, 1, Len(signals) - 1))
             sym == signals[Len(signals)].symbol
         IN IF \E i \in 1..Len(rest) : rest[i] = sym THEN rest
            ELSE Append(rest, sym)

\* variant: the last entries of each group are kept
RECURSIVE LimitGroupsLast(_, _, _)
LimitGroupsLast(symbols, signals, cap) ==
    IF symbols = <<>> THEN <<>>
    ELSE Tail_n(SelectSeq(signals, LAMBDA x : x.symbol = Head(symbols)), cap)
         \o LimitGroupsLast(Tail(symbols), signals, cap)

\* symbol_groups[symbol][:max_signals_per_symbol], group after group
RECURSIVE LimitGroups(_, _, _)
LimitGroups(symbols, signals, cap) ==
    IF symbols = <<>> THEN <<>>
    ELSE Head_n(SelectSeq(signals, LAMBDA x : x.symbol = Head(symbols)), cap)
         \o LimitGroups(Tail(symbols), signals, cap)

\* _post_process_signals
post_process_signals(signals, cap) ==
    IF signals = <<>> THEN <<>>
    ELSE LET sorted == SortByConfidenceDesc(signals)
             final_signals == LimitGroups(SymbolOrder(sorted), sorted, cap)
         IN SortByConfidenceDesc(final_signals)

\* ------------------------------------------------------------ state update
\* variant: the history is never trimmed
UpdatedHistoryUntrimmed(history, signal) == Append(history, signal)

\* variant: the new signal is put in front of the history
UpdatedHistoryFront(history, signal) ==
    LET appended == <<signal>> \o history IN
    IF Len(appended) > HistoryMax THEN Tail_n(appended, HistoryKeep) ELSE appended

\* _update_signal_state, history part: append, then keep the last 500 once
\* the list is longer than 1000
UpdatedHistory(history, signal) ==
    LET appended == Append(history, signal) IN
    IF Len(appended) > HistoryMax THEN Tail_n(appended, HistoryKeep) ELSE appended

\* variant: the per-symbol time is not written
UpdatedLastSignalSkipped(last, signal, t) == last

\* _update_signal_state, per-symbol time: time.time() at the update
UpdatedLastSignal(last, signal, t) ==
    [sym \in DOMAIN last \cup {signal.symbol} |->
        IF sym = signal.symbol THEN t ELSE last[sym]]

\* the context's view of the history after _update_signal_state: the append
\* is seen through the alias, the rebinding on trim ends the alias
UpdatedContext(ctx, signal) ==
    IF ~ctx.aliased THEN ctx
    ELSE LET appended == Append(signal_history, signal) IN
         IF Len(appended) > HistoryMax
         THEN [ctx EXCEPT !.aliased = FALSE, !.signal_history = appended]
         ELSE ctx

\* defaultdict(int)[reason] += 1
Counted(reasons, reason) ==
    [r \in DOMAIN reasons \cup {reason} |->
        IF r = reason THEN DictGet(reasons, reason, 0) + 1 ELSE reasons[r]]

EmptyStats == [total_processed |-> 0, total_filtered |-> 0,
               filter_reasons |-> <<>>, accepted_signals |-> 0]

NoContext == [market_data |-> <<>>, current_time |-> 0, aliased |-> TRUE,
              signal_history |-> <<>>]

NoEval == [signal |-> None, position |-> 0, verdict |-> "none", reason |-> "none",
           evaluated |-> <<>>]

\* variant: the new date is recorded but the counter is carried over
reset_daily_count_carried ==
    IF today # last_reset_date
    THEN [count |-> daily_signal_count, date |-> today]
    ELSE [count |-> daily_signal_count, date |-> last_reset_date]

\* _reset_daily_count_if_needed: the counter and the reset date it leaves
reset_daily_count_if_needed ==
    IF today # last_reset_date
    THEN [count |-> 0, date |-> today]
    ELSE [count |-> daily_signal_count, date |-> last_reset_date]

\* ------------------------------------------------------------------- Init
\* BaseSignalGenerator.__init__: _stats (avg_confidence as sum / count)
EmptyGenStats == [active_signals |-> 0, total_signals_generated |-> 0,
                  avg_confidence |-> [sum |-> 0, count |-> 1]]

NoResult ==
    [kind |-> "none", value |-> <<>>, symbol |-> <<>>, bars |-> 0, raw |-> <<>>]

\* max(...) of generate_signals
\* variant: the smallest of three
Min3(a, b, c) ==
    IF a <= b /\ a <= c THEN a ELSE IF b <= c THEN b ELSE c

Max3(a, b, c) ==
    IF a >= b /\ a >= c THEN a ELSE IF b >= c THEN b ELSE c

\* ------------------------------------------------------------- MathUtils
\* Python floats are modelled as fractions n/d in lowest terms (d > 0); on
\* the small integers of the model every float operation below is exact
\* up to the rounding of the quotient, which keeps order and equality
RECURSIVE GCD(_, _)
GCD(a, b) == IF b = 0 THEN a ELSE GCD(b, a % b)

Frac(n, d) ==
    LET g == GCD(Abs(n), d) IN [n |-> n \div g, d |-> d \div g]

Float(i) == [n |-> i, d |-> 1]
FAdd(a, b) == Frac(a.n * b.d + b.n * a.d, a.d * b.d)
FSub(a, b) == Frac(a.n * b.d - b.n * a.d, a.d * b.d)
FMul(a, b) == Frac(a.n * b.n, a.d * b.d)
FLt(a, b) == a.n * b.d < b.n * a.d
FLe(a, b) == a.n * b.d <= b.n * a.d

\* a list of prices as a list of floats
Floats(ints) == [i \in 1..Len(ints) |-> Float(ints[i])]

\* sum(list)
RECURSIVE FSum(_)
FSum(values) ==
    IF values = <<>> THEN Float(0)
    ELSE FAdd(values[1], FSum(Tail(values)))

\* list[i : j] of Python for 0 <= i, as a 1-based sequence
Slice(values, i, j) == SubSeq(values, i + 1, Min(j, Len(values)))

\* variant: a series as long as the period yields nothing
calculate_sma_needs_more(prices, period) ==
    IF Len(prices) <= period THEN <<>>
    ELSE [k \in 1..(Len(prices) - period + 1) |->
            FMul(FSum(Slice(prices, k - 1, k - 1 + period)), Frac(1, period))]

\* MathUtils.calculate_sma (for i in range(period - 1, len(prices)); k is
\* i - period + 2)
calculate_sma(prices, period) ==
    IF Len(prices) < period THEN <<>>
    ELSE [k \in 1..(Len(prices) - period + 1) |->
            FMul(FSum(Slice(prices, k - 1, k - 1 + period)), Frac(1, period))]

\* the loop of calculate_ema from index i on, ema_values being the list so far
RECURSIVE EmaLoop(_, _, _, _)
EmaLoop(prices, alpha, i, ema_values) ==
    IF i >= Len(prices) THEN ema_values
    ELSE EmaLoop(prices, alpha, i + 1,
                 Append(ema_values,
                        FAdd(FMul(alpha, prices[i + 1]),
                             FMul(FSub(Float(1), alpha),
                                  ema_values[Len(ema_values)]))))

\* MathUtils.calculate_ema
calculate_ema(prices, period) ==
    IF Len(prices) < period THEN <<>>
    ELSE LET alpha == Frac(2, period + 1)
             first_ema == FMul(FSum(Slice(prices, 0, period)), Frac(1, period))
         IN EmaLoop(prices, alpha, period, <<first_ema>>)

\* variant: the fast EMA is taken from its first value
macd_start_idx_zero(fast_period, slow_period) == 0

\* calculate_macd: start_idx, the index of the fast EMA value that belongs
\* to the bar of the first slow EMA value
macd_start_idx(fast_period, slow_period) == slow_period - fast_period

\* zip(a, b) with the difference taken: as long as the shorter list
ZipSub(a, b) == [k \in 1..Min(Len(a), Len(b)) |-> FSub(a[k], b[k])]

\* MathUtils.calculate_macd
calculate_macd(prices, fast_period, slow_period, signal_period) ==
    IF Len(prices) < slow_period
    THEN [macd_line |-> <<>>, signal_line |-> <<>>, histogram |-> <<>>]
    ELSE LET fast_ema == calculate_ema(prices, fast_period)
             slow_ema == calculate_ema(prices, slow_period)
             start_idx == macd_start_idx(fast_period, slow_period)
             fast_ema_aligned == Slice(fast_ema, start_idx, Len(fast_ema))
             macd_line == ZipSub(fast_ema_aligned, slow_ema)
             signal_line == calculate_ema(macd_line, signal_period)
             signal_start == Len(macd_line) - Len(signal_line)
         IN [macd_line |-> macd_line,
             signal_line |-> signal_line,
             histogram |-> [i \in 1..Len(signal_line) |->
                              FSub(macd_line[signal_start + i], signal_line[i])]]

FDiv(a, b) ==
    IF b.n > 0 THEN Frac(a.n * b.d, a.d * b.n) ELSE Frac(-(a.n * b.d), a.d * (-b.n))
FAbs(a) == [n |-> Abs(a.n), d |-> a.d]
FMin(a, b) == IF FLe(a, b) THEN a ELSE b
FMax(a, b) == IF FLe(b, a) THEN a ELSE b

\* list[-n:] of Python
LastN(values, n) == SubSeq(values, Max3(1, Len(values) - n + 1, 1), Len(values))

\* TradingSignalGenerator._calculate_trend_consistency; raised where a
\* price that is divided by is 0
calculate_trend_consistency(prices) ==
    IF Len(prices) < 3 THEN [raised |-> FALSE, value |-> Frac(1, 2)]
    ELSE IF \E i \in 1..(Len(prices) - 1) : prices[i].n = 0
    THEN [raised |-> TRUE, value |-> Float(0)]
    ELSE LET changes == [i \in 1..(Len(prices) - 1) |->
                           FDiv(FSub(prices[i + 1], prices[i]), prices[i])]
             positive_changes ==
                 Cardinality({ i \in DOMAIN changes : changes[i].n > 0 })
             negative_changes ==
                 Cardinality({ i \in DOMAIN changes : changes[i].n < 0 })
         IN [raised |-> FALSE,
             value |-> Frac(Max3(positive_changes, negative_changes, 0),
                            Len(changes))]

\* TradingSignalGenerator._calculate_ma_confidence; raised where slow_ma is 0
calculate_ma_confidence(fast_ma, slow_ma, prices) ==
    LET trend_consistency == calculate_trend_consistency(LastN(prices, 5))
    IN IF slow_ma.n = 0 \/ trend_consistency.raised
       THEN [raised |-> TRUE, value |-> Float(0)]
       ELSE LET ma_diff == FDiv(FAbs(FSub(fast_ma, slow_ma)), slow_ma)
                base_confidence == FMin(Frac(8, 10), FMul(ma_diff, Float(10)))
                confidence == FMul(base_confidence, trend_consistency.value)
            IN [raised |-> FALSE,
                value |-> FMax(Frac(3, 10), FMin(Frac(9, 10), confidence))]

\* what a crossover builder returns: None, a Signal or an exception
NoCandidate == [kind |-> "None", side |-> "", confidence |-> Float(0)]
RaisedInBuilder == [kind |-> "raised", side |-> "", confidence |-> Float(0)]
BuiltSignal(side, confidence) ==
    IF confidence.raised THEN RaisedInBuilder
    ELSE [kind |-> "Signal", side |-> side, confidence |-> confidence.value]

\* variant: a golden cross needs the short average strictly below before
generate_ma_crossover_signal_strict(prices, sma_short, sma_long) ==
    IF Len(sma_short) < 2 \/ Len(sma_long) < 2 THEN NoCandidate
    ELSE LET current_short == sma_short[Len(sma_short)]
             current_long == sma_long[Len(sma_long)]
             prev_short == sma_short[Len(sma_short) - 1]
             prev_long == sma_long[Len(sma_long) - 1]
         IN IF FLt(prev_short, prev_long) /\ FLt(current_long, current_short)
            THEN BuiltSignal("BUY", calculate_ma_confidence(current_short, current_long, prices))
            ELSE IF FLe(prev_long, prev_short) /\ FLt(current_short, current_long)
            THEN BuiltSignal("SELL", calculate_ma_confidence(current_long, current_short, prices))
            ELSE NoCandidate

\* TradingSignalGenerator._generate_ma_crossover_signal
generate_ma_crossover_signal(prices, sma_short, sma_long) ==
    IF Len(sma_short) < 2 \/ Len(sma_long) < 2 THEN NoCandidate
    ELSE LET current_short == sma_short[Len(sma_short)]
             current_long == sma_long[Len(sma_long)]
             prev_short == sma_short[Len(sma_short) - 1]
             prev_long == sma_long[Len(sma_long) - 1]
         IN IF FLe(prev_short, prev_long) /\ FLt(current_long, current_short)
            THEN BuiltSignal("BUY", calculate_ma_confidence(current_short, current_long, prices))
            ELSE IF FLe(prev_long, prev_short) /\ FLt(current_short, current_long)
            THEN BuiltSignal("SELL", calculate_ma_confidence(current_long, current_short, prices))
            ELSE NoCandidate

\* TechnicalSignalGenerator._check_ma_crossover; the confidence is
\* min(0.8, abs(difference) / current_slow * 10), raised where current_slow
\* is 0
check_ma_crossover(fast_ma, slow_ma) ==
    IF Len(fast_ma) < 2 \/ Len(slow_ma) < 2 THEN NoCandidate
    ELSE LET current_fast == fast_ma[Len(fast_ma)]
             current_slow == slow_ma[Len(slow_ma)]
             prev_fast == fast_ma[Len(fast_ma) - 1]
             prev_slow == slow_ma[Len(slow_ma) - 1]
             confidence ==
                 IF current_slow.n = 0 THEN [raised |-> TRUE, value |-> Float(0)]
                 ELSE [raised |-> FALSE,
                       value |-> FMin(Frac(8, 10),
                                      FMul(FDiv(FAbs(FSub(current_fast, current_slow)),
                                                current_slow), Float(10)))]
         IN IF FLe(prev_fast, prev_slow) /\ FLt(current_slow, current_fast)
            THEN BuiltSignal("BUY", confidence)
            ELSE IF FLe(prev_slow, prev_fast) /\ FLt(current_fast, current_slow)
            THEN BuiltSignal("SELL", confidence)
            ELSE NoCandidate

\* the calls of the pure functions: series of at most MaxSeries closes,
\* which are positive prices, and periods of 1 to MaxPeriod bars
PriceValues == {1, 2, 4}
RECURSIVE SeriesOfLength(_)
SeriesOfLength(n) ==
    IF n = 0 THEN { <<>> }
    ELSE { Append(s, v) : s \in SeriesOfLength(n - 1), v \in PriceValues }
Series == UNION { SeriesOfLength(n) : n \in 0..MaxSeries }
Periods == 1..MaxPeriod

NoSmaCall == [called |-> FALSE, prices |-> <<>>, period |-> 1, result |-> <<>>]
NoMacdCall ==
    [called |-> FALSE, prices |-> <<>>, fast_period |-> 1, slow_period |-> 2,
     signal_period |-> 1, fast_ema |-> <<>>, slow_ema |-> <<>>,
     result |-> [macd_line |-> <<>>, signal_line |-> <<>>, histogram |-> <<>>]]
NoCrossoverCall ==
    [op |-> "none", prices |-> <<>>, fast_ma |-> <<>>, slow_ma |-> <<>>,
     result |-> NoCandidate]

\* the frame of a call of a pure function
OutsideCall ==
    /\ UNCHANGED <<now, today>>
    /\ UNCHANGED filterVars
    /\ UNCHANGED genVars
    /\ UNCHANGED callerVars
    /\ UNCHANGED logVars
    /\ UNCHANGED peerVars
    /\ UNCHANGED viewVars
    /\ UNCHANGED techVars
    /\ UNCHANGED auditVars
    /\ UNCHANGED clearVars

PureCall ==
    /\ OutsideCall
    /\ UNCHANGED strategyVars
    /\ UNCHANGED channelVars

\* MathUtils.calculate_sma(prices, period)
CalculateSma(prices, period) ==
    /\ sma_call' = [called |-> TRUE, prices |-> prices, period |-> period,
                    result |-> calculate_sma(Floats(prices), period)]
    /\ UNCHANGED <<macd_call, crossover_call>>
    /\ PureCall

\* MathUtils.calculate_macd(prices, fast_period, slow_period, signal_period);
\* the EMAs of the whole series are recorded beside the result
CalculateMacd(prices, fast_period, slow_period, signal_period) ==
    /\ macd_call' =
          [called |-> TRUE, prices |-> prices, fast_period |-> fast_period,
           slow_period |-> slow_period, signal_period |-> signal_period,
           fast_ema |-> calculate_ema(Floats(prices), fast_period),
           slow_ema |-> calculate_ema(Floats(prices), slow_period),
           result |-> calculate_macd(Floats(prices), fast_period, slow_period,
                                     signal_period)]
    /\ UNCHANGED <<sma_call, crossover_call>>
    /\ PureCall

\* TradingSignalGenerator._generate_ma_crossover_signal on the indicators
\* that _calculate_indicators computes for sma_short_period and
\* sma_long_period
GenerateMaCrossoverSignal(prices, sma_short_period, sma_long_period) ==
    LET sma_short == calculate_sma(Floats(prices), sma_short_period)
        sma_long == calculate_sma(Floats(prices), sma_long_period)
    IN /\ crossover_call' =
             [op |-> "generate_ma_crossover_signal", prices |-> prices,
              fast_ma |-> sma_short, slow_ma |-> sma_long,
              result |-> generate_ma_crossover_signal(Floats(prices), sma_short,
                                                      sma_long)]
       /\ UNCHANGED <<sma_call, macd_call>>
       /\ PureCall

\* TechnicalSignalGenerator._check_ma_crossover on the SMAs or the EMAs of
\* _calculate_all_indicators
CheckMaCrossover(prices, fast_period, slow_period, ma_type) ==
    LET fast_ma == IF ma_type = "SMA" THEN calculate_sma(Floats(prices), fast_period)
                   ELSE calculate_ema(Floats(prices), fast_period)
        slow_ma == IF ma_type = "SMA" THEN calculate_sma(Floats(prices), slow_period)
                   ELSE calculate_ema(Floats(prices), slow_period)
    IN /\ crossover_call' =
             [op |-> "check_ma_crossover", prices |-> prices,
              fast_ma |-> fast_ma, slow_ma |-> slow_ma,
              result |-> check_ma_crossover(fast_ma, slow_ma)]
       /\ UNCHANGED <<sma_call, macd_call>>
       /\ PureCall

\* ---------------------------------------------- TechnicalSignalGenerator
\* defaults of TechnicalSignalGenerator.__init__ (weights, scores and
\* thresholds in hundredths)
TechSmaSlowPeriod == 20
TechEmaSlowPeriod == 26
TechRsiPeriod == 14
TechMacdSlowPeriod == 26
TechBbPeriod == 20
TechSmaWeight == 30
TechRsiWeight == 20
TechMacdWeight == 25
TechBbWeight == 15
TechSignalThreshold == 60
TechMaxSignalsPerSymbol == 3
\* _generate_technical_signals: the literal emission threshold
TechEmitLiteral == 30

\* the config argument: the switches of the indicators (periods, weights
\* and signal_threshold at their defaults)
TechConfigs ==
    [sma_enabled : BOOLEAN, rsi_enabled : BOOLEAN, macd_enabled : BOOLEAN,
     bb_enabled : BOOLEAN]

\* indicators_config: name -> weight; there is no entry "kdj"
TechWeights ==
    [sma |-> TechSmaWeight, rsi |-> TechRsiWeight, macd |-> TechMacdWeight,
     bollinger |-> TechBbWeight]

\* the scores that _generate_technical_signals derives from the latest
\* indicator values are an input of the model
TechScores ==
    [rsi : {-100, 0, 100}, macd : {-50, 50}, bollinger : {-100, 0, 100},
     ma : {0, 100}, kdj : {0}]

\* number of bars of the market data (0: no market data or no klines)
TechBars == {0, 19, 25, 26, 40}

NoTechResult ==
    [kind |-> "none", value |-> <<>>, bars |-> 0,
     config |-> [sma_enabled |-> TRUE, rsi_enabled |-> TRUE,
                 macd_enabled |-> TRUE, bb_enabled |-> TRUE],
     scores |-> [rsi |-> 0, macd |-> 50, bollinger |-> 0, ma |-> 0, kdj |-> 0]]

\* min_data_points of generate_signals: the four periods, enabled or not
min_data_points ==
    Max3(Max3(TechSmaSlowPeriod, TechEmaSlowPeriod, TechRsiPeriod),
         TechBbPeriod, 0)

\* _calculate_all_indicators: raises NameError where it reaches `pd`, the
\* module importing no pandas; otherwise the keys of the dict it returns
calculate_all_indicators(cfg) ==
    IF cfg.rsi_enabled \/ cfg.macd_enabled \/ cfg.bb_enabled
    THEN [raised |-> TRUE, keys |-> {}]
    ELSE [raised |-> FALSE,
          keys |-> (IF cfg.sma_enabled THEN {"sma_fast", "sma_slow"} ELSE {})
                   \cup {"ema_fast", "ema_slow", "volume_ma", "volume_ratio",
                         "volatility", "price_change", "supports",
                         "resistances"}]

\* the fields of Kline
KlineFields ==
    {"open_time", "open", "high", "low", "close", "volume", "close_time",
     "symbol", "quote_volume", "taker_buy_base_volume",
     "taker_buy_quote_volume", "ignore"}

\* _generate_technical_signals: AttributeError on df[-1].timestamp, which
\* Kline does not have; KeyError on an indicator that was not
\* computed ('kdj' never is) and on the weight of "kdj"; AttributeError on
\* the strengths VERY_STRONG and MEDIUM, which SignalStrength does not
\* have; TypeError on Signal(indicators=...), a field Signal does not have
generate_technical_signals(keys, scores) ==
    LET total_score ==
            (scores.rsi * TechWeights.rsi + scores.macd * TechWeights.macd
             + scores.bollinger * TechWeights.bollinger
             + scores.ma * TechWeights.sma) \div 100
    IN IF "timestamp" \notin KlineFields
       THEN [raised |-> TRUE, value |-> <<>>]
       ELSE IF ~({"rsi", "macd", "bollinger", "sma_fast", "sma_slow", "kdj"}
              \subseteq keys)
       THEN [raised |-> TRUE, value |-> <<>>]
       ELSE IF "kdj" \notin DOMAIN TechWeights
       THEN [raised |-> TRUE, value |-> <<>>]
       ELSE IF Abs(total_score) >= TechEmitLiteral
       THEN [raised |-> TRUE, value |-> <<>>]
       ELSE [raised |-> FALSE, value |-> <<>>]

\* TechnicalSignalGenerator.filter_signals, for the signals of one call,
\* which are all of one symbol: by confidence, at most
\* max_signals_per_symbol, and of these the ones at signal_threshold or above
tech_filter_signals(signals) ==
    SelectSeq(Head_n(SortByConfidenceDesc(signals), TechMaxSignalsPerSymbol),
              LAMBDA s : s.confidence >= TechSignalThreshold)

\* TechnicalSignalGenerator.generate_signals
TechnicalGenerate(bars, cfg, scores) ==
    LET indicators == calculate_all_indicators(cfg)
        signals == generate_technical_signals(indicators.keys, scores)
        ended(kind, value) == [kind |-> kind, value |-> value, bars |-> bars,
                               config |-> cfg, scores |-> scores]
    IN /\ tech_result' =
             IF bars = 0 THEN ended("list", <<>>)
             ELSE IF bars < min_data_points THEN ended("list", <<>>)
             ELSE IF indicators.raised THEN ended("raised", <<>>)
             ELSE IF signals.raised THEN ended("raised", <<>>)
             ELSE ended("list", tech_filter_signals(signals.value))
       /\ UNCHANGED <<now, today>>
       /\ UNCHANGED filterVars
       /\ UNCHANGED genVars
       /\ UNCHANGED callerVars
       /\ UNCHANGED logVars
       /\ UNCHANGED peerVars
       /\ UNCHANGED viewVars
       /\ UNCHANGED calcVars
       /\ UNCHANGED auditVars
       /\ UNCHANGED clearVars
       /\ UNCHANGED strategyVars
       /\ UNCHANGED channelVars

\* --------------------------------------------------------- BaseStrategy
StrategyStates == {"INITIALIZING", "RUNNING", "PAUSED", "STOPPED", "ERROR"}

NoStrategyCall == [n |-> 0, op |-> "none", from |-> "INITIALIZING",
                   promised |-> FALSE, result |-> "none"]

\* the call that is recorded as the latest one
Called(op, result) ==
    strategy_call' = [n |-> strategy_call.n + 1, op |-> op,
                      from |-> strategy_state, promised |-> init_promise,
                      result |-> result]

\* a call on the strategy leaves everything else alone
StrategyStep ==
    /\ OutsideCall
    /\ UNCHANGED calcVars
    /\ UNCHANGED channelVars

\* initialize(), up to the point where do_initialize awaits on_initialize;
\* config_ok: validate_config returns (it raises otherwise)
Initialize(config_ok) ==
    /\ IF init_promise
       THEN /\ Called("initialize", "None")
            /\ UNCHANGED <<strategy_state, init_promise, init_awaiting, init_runs>>
       ELSE /\ init_promise' = TRUE
            /\ init_runs' = init_runs + 1
            /\ IF config_ok
               THEN /\ strategy_state' = "INITIALIZING"
                    /\ init_awaiting' = TRUE
                    /\ Called("initialize", "awaiting")
               ELSE /\ strategy_state' = "ERROR"
                    /\ init_awaiting' = FALSE
                    /\ Called("initialize", "RuntimeError")
    /\ StrategyStep

\* do_initialize from the return of on_initialize; ok: it returned (it
\* raised otherwise)
DoInitializeResumes(ok) ==
    /\ init_awaiting
    /\ init_awaiting' = FALSE
    /\ strategy_state' = IF ok THEN "RUNNING" ELSE "ERROR"
    /\ strategy_call' = [strategy_call EXCEPT
                             !.op = "do_initialize",
                             !.from = strategy_state,
                             !.result = IF ok THEN "None" ELSE "RuntimeError"]
    /\ UNCHANGED <<init_promise, init_runs>>
    /\ StrategyStep

\* variant: pause() from any state
PauseAlways ==
    /\ strategy_state' = "PAUSED"
    /\ Called("pause", "None")
    /\ UNCHANGED <<init_promise, init_awaiting, init_runs>>
    /\ StrategyStep

\* pause()
Pause ==
    /\ strategy_state' = IF strategy_state = "RUNNING" THEN "PAUSED"
                         ELSE strategy_state
    /\ Called("pause", "None")
    /\ UNCHANGED <<init_promise, init_awaiting, init_runs>>
    /\ StrategyStep

\* resume()
Resume ==
    /\ strategy_state' = IF strategy_state = "PAUSED" THEN "RUNNING"
                         ELSE strategy_state
    /\ Called("resume", "None")
    /\ UNCHANGED <<init_promise, init_awaiting, init_runs>>
    /\ StrategyStep

\* stop(); hook_ok: on_stop returns (it raises otherwise, after the
\* assignment)
Stop(hook_ok) ==
    /\ strategy_state' = "STOPPED"
    /\ Called("stop", IF hook_ok THEN "None" ELSE "raised")
    /\ UNCHANGED <<init_promise, init_awaiting, init_runs>>
    /\ StrategyStep

\* what validate_market_data does: returns True, returns False, raises
MarketDataChecks == {"valid", "invalid", "raises"}

\* the value of process_market_data: None on each of its four paths (not
\* RUNNING, invalid data, the end of the body, the exception handler)
process_market_data(state, check) ==
    IF state # "RUNNING" THEN "None"
    ELSE IF check = "invalid" THEN "None"
    ELSE IF check = "raises" THEN "None"
    ELSE "None"

\* process_market_data(data)
ProcessMarketData(check) ==
    /\ Called("process_market_data", process_market_data(strategy_state, check))
    /\ UNCHANGED <<strategy_state, init_promise, init_awaiting, init_runs>>
    /\ StrategyStep

\* ----------------------------------------------- BaseNotificationChannel
\* self.max_retries of __init__
DefaultMaxRetries == 3

ChannelStatuses == {"ACTIVE", "INACTIVE", "ERROR", "MAINTENANCE"}

\* ChannelStatistics(): the counters (the average response time and the
\* times of the last send and error are left out)
ChannelStatistics == [total_sent |-> 0, success_count |-> 0, failure_count |-> 0]

NoSendCall ==
    [n |-> 0, sends |-> 0, updates |-> 0, true_seen |-> FALSE,
     after_true |-> FALSE, unavailable |-> FALSE,
     before |-> ChannelStatistics, errors_before |-> 0, outcome |-> "none"]

\* SendResult(success=..., ...): the class is declared under a bare
\* `dataclass` expression statement, not under the decorator, so it has no
\* generated __init__ and the call raises TypeError
SendResult(success) == "TypeError"

\* is_available()
is_available == is_enabled /\ channel_status = "ACTIVE"

\* variant: failures are not counted
update_statistics_success_only(st, success) ==
    IF success
    THEN [st EXCEPT !.total_sent = @ + 1, !.success_count = @ + 1]
    ELSE st

\* update_statistics(success, response_time)
update_statistics(st, success) ==
    [st EXCEPT !.total_sent = @ + 1,
               !.success_count = @ + (IF success THEN 1 ELSE 0),
               !.failure_count = @ + (IF success THEN 0 ELSE 1)]

\* a step of the channel leaves everything else alone
ChannelStep ==
    /\ OutsideCall
    /\ UNCHANGED calcVars
    /\ UNCHANGED strategyVars

\* send_with_retry behind the loop: update_statistics(False, ...),
\* increment_error_count(), return SendResult(success=False, ...)
AfterLoop(st, ec, obs) ==
    /\ statistics' = update_statistics(st, FALSE)
    /\ error_count' = ec + 1
    /\ send_pc' = "idle"
    /\ attempt' = 0
    /\ send_call' = [obs EXCEPT !.updates = @ + 1,
                                !.outcome = IF SendResult(FALSE) = "TypeError"
                                            THEN "TypeError" ELSE "FAILED"]

\* the except clause of attempt k: sleep before the next attempt, or leave
\* the loop after the last one
ExceptClause(k, st, ec, obs) ==
    IF k < max_retries
    THEN /\ statistics' = st
         /\ error_count' = ec
         /\ send_pc' = "sleeping"
         /\ attempt' = k
         /\ send_call' = obs
    ELSE AfterLoop(st, ec, obs)

\* the loop body of attempt k up to `await self.send_notification(...)`
TryAttempt(k, obs) ==
    IF ~is_available
    THEN ExceptClause(k, statistics, error_count, obs)
    ELSE /\ send_pc' = "sending"
         /\ attempt' = k
         /\ send_call' = [obs EXCEPT !.sends = @ + 1,
                                     !.after_true = @ \/ obs.true_seen,
                                     !.unavailable = @ \/ ~is_available]
         /\ UNCHANGED <<statistics, error_count>>

\* send_with_retry(message, signal), up to its first await
SendWithRetry ==
    /\ send_pc = "idle"
    /\ LET obs == [n |-> send_call.n + 1, sends |-> 0, updates |-> 0,
                   true_seen |-> FALSE, after_true |-> FALSE,
                   unavailable |-> FALSE, before |-> statistics,
                   errors_before |-> error_count, outcome |-> "running"]
       IN IF max_retries < 1
          THEN AfterLoop(statistics, error_count, obs)
          ELSE TryAttempt(1, obs)
    /\ UNCHANGED <<is_enabled, channel_status, max_retries>>
    /\ ChannelStep

\* what send_notification does: returns True, returns False, raises
SendOutcomes == {"True", "False", "raises"}

\* send_with_retry from the return of send_notification
SendNotificationReturns(result) ==
    /\ send_pc = "sending"
    /\ IF result = "True"
       THEN LET st == update_statistics(statistics, TRUE)
                obs == [send_call EXCEPT !.updates = @ + 1, !.true_seen = TRUE]
            IN IF SendResult(TRUE) = "TypeError"
               THEN ExceptClause(attempt, st, 0, obs)
               ELSE /\ statistics' = st
                    /\ error_count' = 0
                    /\ send_pc' = "idle"
                    /\ attempt' = 0
                    /\ send_call' = [obs EXCEPT !.outcome = "SENT"]
       ELSE ExceptClause(attempt, statistics, error_count, send_call)
    /\ UNCHANGED <<is_enabled, channel_status, max_retries>>
    /\ ChannelStep

\* send_with_retry from the return of sleep
SleepReturns ==
    /\ send_pc = "sleeping"
    /\ TryAttempt(attempt + 1, send_call)
    /\ UNCHANGED <<is_enabled, channel_status, max_retries>>
    /\ ChannelStep

\* enable()
Enable ==
    /\ is_enabled' = TRUE
    /\ channel_status' = IF channel_status = "INACTIVE" THEN "ACTIVE"
                          ELSE channel_status
    /\ UNCHANGED <<statistics, error_count, max_retries, send_pc, attempt,
                   send_call>>
    /\ ChannelStep

\* disable()
Disable ==
    /\ is_enabled' = FALSE
    /\ channel_status' = "INACTIVE"
    /\ UNCHANGED <<statistics, error_count, max_retries, send_pc, attempt,
                   send_call>>
    /\ ChannelStep

\* set_status(status)
SetStatus(status) ==
    /\ channel_status' = status
    /\ UNCHANGED <<is_enabled, statistics, error_count, max_retries, send_pc,
                   attempt, send_call>>
    /\ ChannelStep


\* SignalFilter.__init__ for a config argument out of cfgs, and
\* TradingSignalGenerator.__init__ for the default config; a second
\* SignalFilter is constructed from the same mapping object (sharing) or
\* from a mapping of its own with the same content: `self.config = config`
\* keeps the caller's object
InitInstances(cfgs, sharing) ==
    /\ now = StartTime
    /\ today = 0
    /\ \E cfg \in cfgs :
        /\ config = cfg
        /\ min_confidence = cfg.min_confidence
        /\ max_signals_per_symbol = cfg.max_signals_per_symbol
        /\ signal_cooldown = cfg.signal_cooldown
        /\ market_filters = [min_volume |-> cfg.min_volume,
                             min_price |-> cfg.min_price,
                             volatility_threshold |-> cfg.volatility_threshold]
        /\ risk_filters = [max_daily_signals |-> cfg.max_daily_signals,
                           blacklist_symbols |-> cfg.blacklist_symbols]
        /\ filter_rules = initialize_filter_rules(cfg)
        /\ peer_config = cfg
        /\ peer_own_config = cfg
        /\ peer_filter_rules = initialize_filter_rules(cfg)
    /\ same_mapping \in sharing
    /\ stats_view = None
    /\ blacklist_view = None
    /\ resets = 0
    /\ tech_result = NoTechResult
    /\ sma_call = NoSmaCall
    /\ macd_call = NoMacdCall
    /\ crossover_call = NoCrossoverCall
    /\ invalid_seen = 0
    /\ last_call_empty = FALSE
    /\ history_clears = 0
    /\ strategy_state = "INITIALIZING"
    /\ init_promise = FALSE
    /\ init_awaiting = FALSE
    /\ init_runs = 0
    /\ strategy_call = NoStrategyCall
    /\ is_enabled = TRUE
    /\ channel_status = "ACTIVE"
    /\ statistics = ChannelStatistics
    /\ error_count = 0
    /\ max_retries = DefaultMaxRetries
    /\ send_pc = "idle"
    /\ attempt = 0
    /\ send_call = NoSendCall
    /\ signal_history = <<>>
    /\ symbol_last_signal = <<>>
    /\ daily_signal_count = 0
    /\ last_reset_date = 0
    /\ stats = EmptyStats
    /\ pc = "idle"
    /\ remaining = 0
    /\ filtered_signals = <<>>
    /\ context = NoContext
    /\ returned = <<>>
    /\ last_eval = NoEval
    /\ submitted = 0
    /\ accepted_today = 0
    /\ gen_last_signal_time = <<>>
    /\ gen_signal_history = <<>>
    /\ gen_market_data_cache = <<>>
    /\ gen_stats = EmptyGenStats
    /\ gen_result = NoResult
    /\ blacklist_requests = {}
    /\ accepted_log = <<>>
    /\ gen_accepted_log = <<>>

\* the second filter has a mapping of its own
InitWith(cfgs) == InitInstances(cfgs, {FALSE})

Init == InitWith(InitConfigs)

\* ------------------------------------------------------------ environment
\* the clock advances (also while a call is running)
Tick ==
    /\ now < MaxTime
    /\ now' = now + TickStep
    /\ UNCHANGED <<today, config, min_confidence, max_signals_per_symbol,
                   signal_cooldown, market_filters, risk_filters, signal_history,
                   symbol_last_signal, daily_signal_count, last_reset_date,
                   filter_rules, stats, pc, remaining, filtered_signals, context,
                   returned, last_eval, submitted, accepted_today>>
    /\ UNCHANGED genVars
    /\ UNCHANGED callerVars
    /\ UNCHANGED logVars
    /\ UNCHANGED peerVars
    /\ UNCHANGED viewVars
    /\ UNCHANGED techVars
    /\ UNCHANGED calcVars
    /\ UNCHANGED auditVars
    /\ UNCHANGED clearVars
    /\ UNCHANGED strategyVars
    /\ UNCHANGED channelVars

\* the local calendar date changes
Rollover ==
    /\ today < MaxDay
    /\ today' = today + 1
    /\ accepted_today' = 0
    /\ UNCHANGED <<now, config, min_confidence, max_signals_per_symbol,
                   signal_cooldown, market_filters, risk_filters, signal_history,
                   symbol_last_signal, daily_signal_count, last_reset_date,
                   filter_rules, stats, pc, remaining, filtered_signals, context,
                   returned, last_eval, submitted>>
    /\ UNCHANGED genVars
    /\ UNCHANGED callerVars
    /\ UNCHANGED logVars
    /\ UNCHANGED peerVars
    /\ UNCHANGED viewVars
    /\ UNCHANGED techVars
    /\ UNCHANGED calcVars
    /\ UNCHANGED auditVars
    /\ UNCHANGED clearVars
    /\ UNCHANGED strategyVars
    /\ UNCHANGED channelVars

\* ---------------------------------------------------------- filter_signals
\* variant: the daily counter is reset before the list is looked at
FilterEmptyAfterReset ==
    /\ pc = "idle"
    /\ returned' = <<>>
    /\ daily_signal_count' = reset_daily_count_if_needed.count
    /\ last_reset_date' = reset_daily_count_if_needed.date
    /\ UNCHANGED <<now, today, config, min_confidence, max_signals_per_symbol,
                   signal_cooldown, market_filters, risk_filters, signal_history,
                   symbol_last_signal,
                   filter_rules, stats, pc, remaining, filtered_signals, context,
                   last_eval, submitted, accepted_today>>
    /\ UNCHANGED genVars
    /\ UNCHANGED callerVars
    /\ UNCHANGED logVars
    /\ UNCHANGED peerVars
    /\ UNCHANGED viewVars
    /\ UNCHANGED techVars
    /\ UNCHANGED calcVars
    /\ last_call_empty' = TRUE
    /\ UNCHANGED invalid_seen
    /\ UNCHANGED clearVars
    /\ UNCHANGED strategyVars
    /\ UNCHANGED channelVars

\* filter_signals([]) : returns [] before touching anything
FilterEmpty ==
    /\ pc = "idle"
    /\ returned' = <<>>
    /\ UNCHANGED <<now, today, config, min_confidence, max_signals_per_symbol,
                   signal_cooldown, market_filters, risk_filters, signal_history,
                   symbol_last_signal, daily_signal_count, last_reset_date,
                   filter_rules, stats, pc, remaining, filtered_signals, context,
                   last_eval, submitted, accepted_today>>
    /\ UNCHANGED genVars
    /\ UNCHANGED callerVars
    /\ UNCHANGED logVars
    /\ UNCHANGED peerVars
    /\ UNCHANGED viewVars
    /\ UNCHANGED techVars
    /\ UNCHANGED calcVars
    /\ last_call_empty' = TRUE
    /\ UNCHANGED invalid_seen
    /\ UNCHANGED clearVars
    /\ UNCHANGED strategyVars
    /\ UNCHANGED channelVars

\* filter_signals(signals, market_data) with n = len(signals) > 0, up to the
\* loop: _reset_daily_count_if_needed and the construction of context
BeginFilter(n, md) ==
    /\ pc = "idle"
    /\ submitted' = submitted + n
    /\ daily_signal_count' = reset_daily_count_if_needed.count
    /\ last_reset_date' = reset_daily_count_if_needed.date
    /\ context' = [market_data |-> md, current_time |-> now, aliased |-> TRUE,
                   signal_history |-> <<>>]
    /\ filtered_signals' = <<>>
    /\ remaining' = n
    /\ pc' = "loop"
    /\ returned' = <<>>
    /\ UNCHANGED <<now, today, config, min_confidence, max_signals_per_symbol,
                   signal_cooldown, market_filters, risk_filters, signal_history,
                   symbol_last_signal, filter_rules, stats, last_eval,
                   accepted_today>>
    /\ UNCHANGED genVars
    /\ UNCHANGED callerVars
    /\ UNCHANGED logVars
    /\ UNCHANGED peerVars
    /\ UNCHANGED viewVars
    /\ UNCHANGED techVars
    /\ UNCHANGED calcVars
    /\ last_call_empty' = FALSE
    /\ UNCHANGED invalid_seen
    /\ UNCHANGED clearVars
    /\ UNCHANGED strategyVars
    /\ UNCHANGED channelVars

\* the structural invariants of a Signal
StructurallyInvalid(sig) ==
    \/ sig.side \notin {"BUY", "SELL"}
    \/ sig.strength \notin {"WEAK", "MODERATE", "STRONG"}
    \/ sig.price <= 0
    \/ sig.confidence < 0
    \/ sig.confidence > 100
    \/ /\ sig.side = "BUY"
       /\ \/ sig.stop_loss # None /\ Val(sig.stop_loss) >= sig.price
          \/ sig.take_profit # None /\ Val(sig.take_profit) <= sig.price
    \/ /\ sig.side = "SELL"
       /\ \/ sig.stop_loss # None /\ Val(sig.stop_loss) <= sig.price
          \/ sig.take_profit # None /\ Val(sig.take_profit) >= sig.price

\* the candidate does not get past structural validation
FailsValidation(sig) ==
    \/ StructurallyInvalid(sig)
    \/ sig.malformed
    \/ sig.id = ""
    \/ sig.reason = ""
    \/ ~validate_symbol(sig.symbol)

\* one iteration of the loop over signals, for candidate `signal`
ProcessSignal(signal) ==
    /\ pc = "loop"
    /\ remaining > 0
    /\ remaining' = remaining - 1
    /\ LET valid == validate_signal_basic(signal)
           res == apply_filter_rules(signal, context)
           processed == [stats EXCEPT !.total_processed = @ + 1]
       IN IF valid # "ok"
          THEN /\ stats' = [processed EXCEPT
                              !.filter_reasons = Counted(@, valid)]
               /\ last_eval' = [signal |-> Some(signal),
                                position |-> last_eval.position + 1,
                                verdict |-> "invalid", reason |-> valid,
                                evaluated |-> <<>>]
               /\ UNCHANGED <<signal_history, symbol_last_signal,
                              daily_signal_count, filtered_signals, context,
                              accepted_today>>
          ELSE IF res.passed
          THEN /\ filtered_signals' = Append(filtered_signals, signal)
               /\ stats' = [processed EXCEPT !.accepted_signals = @ + 1]
               /\ symbol_last_signal' =
                      UpdatedLastSignal(symbol_last_signal, signal, now)
               /\ signal_history' = UpdatedHistory(signal_history, signal)
               /\ context' = UpdatedContext(context, signal)
               /\ daily_signal_count' = daily_signal_count + 1
               /\ accepted_today' = accepted_today + 1
               /\ last_eval' = [signal |-> Some(signal),
                                position |-> last_eval.position + 1,
                                verdict |-> "accepted", reason |-> "none",
                                evaluated |-> res.evaluated]
          ELSE /\ stats' = [processed EXCEPT
                              !.total_filtered = @ + 1,
                              !.filter_reasons =
                                  IF res.reason = "none" THEN @
                                  ELSE Counted(@, res.reason)]
               /\ last_eval' = [signal |-> Some(signal),
                                position |-> last_eval.position + 1,
                                verdict |-> IF res.raised THEN "raised"
                                            ELSE "rejected",
                                reason |-> res.reason,
                                evaluated |-> res.evaluated]
               /\ UNCHANGED <<signal_history, symbol_last_signal,
                              daily_signal_count, filtered_signals, context,
                              accepted_today>>
    /\ UNCHANGED <<now, today, config, min_confidence, max_signals_per_symbol,
                   signal_cooldown, market_filters, risk_filters,
                   last_reset_date, filter_rules, pc, returned, submitted>>
    /\ UNCHANGED genVars
    /\ UNCHANGED callerVars
    /\ accepted_log' = IF last_eval'.verdict = "accepted"
                       THEN Append(accepted_log, signal) ELSE accepted_log
    /\ UNCHANGED gen_accepted_log
    /\ UNCHANGED peerVars
    /\ UNCHANGED viewVars
    /\ UNCHANGED techVars
    /\ UNCHANGED calcVars
    /\ invalid_seen' = invalid_seen + (IF FailsValidation(signal) THEN 1 ELSE 0)
    /\ UNCHANGED last_call_empty
    /\ UNCHANGED clearVars
    /\ UNCHANGED strategyVars
    /\ UNCHANGED channelVars

\* after the loop: _post_process_signals and return
ReturnFiltered ==
    /\ pc = "loop"
    /\ remaining = 0
    /\ returned' = post_process_signals(filtered_signals, max_signals_per_symbol)
    /\ pc' = "idle"
    /\ filtered_signals' = <<>>
    /\ context' = NoContext
    /\ last_eval' = NoEval
    /\ UNCHANGED <<now, today, config, min_confidence, max_signals_per_symbol,
                   signal_cooldown, market_filters, risk_filters, signal_history,
                   symbol_last_signal, daily_signal_count, last_reset_date,
                   filter_rules, stats, remaining, submitted, accepted_today>>
    /\ UNCHANGED genVars
    /\ UNCHANGED callerVars
    /\ UNCHANGED logVars
    /\ UNCHANGED peerVars
    /\ UNCHANGED viewVars
    /\ UNCHANGED techVars
    /\ UNCHANGED calcVars
    /\ UNCHANGED auditVars
    /\ UNCHANGED clearVars
    /\ UNCHANGED strategyVars
    /\ UNCHANGED channelVars

\* ------------------------------------------------------- other operations
\* arguments of update_config used by the model
ConfigUpdates ==
    { [daily_limit_enabled |-> FALSE],
      [daily_limit_enabled |-> TRUE] }

\* variant: the daily limit is read again from the merged configuration
UpdateConfigRereadsLimit(new) ==
    /\ pc = "idle"
    /\ LET merged == new @@ config IN
        /\ config' = merged
        /\ min_confidence' = DictGet(new, "min_confidence", min_confidence)
        /\ max_signals_per_symbol' =
               DictGet(new, "max_signals_per_symbol", max_signals_per_symbol)
        /\ signal_cooldown' = DictGet(new, "signal_cooldown", signal_cooldown)
        /\ filter_rules' = initialize_filter_rules(merged)
        /\ risk_filters' = [risk_filters EXCEPT
                               !.max_daily_signals = merged.max_daily_signals]
    /\ UNCHANGED <<now, today, market_filters, signal_history,
                   symbol_last_signal, daily_signal_count, last_reset_date,
                   stats, pc, remaining, filtered_signals, context,
                   returned, last_eval, submitted, accepted_today>>
    /\ UNCHANGED genVars
    /\ UNCHANGED callerVars
    /\ UNCHANGED logVars
    /\ peer_config' = IF same_mapping THEN new @@ config ELSE peer_config
    /\ UNCHANGED <<same_mapping, peer_filter_rules, peer_own_config>>
    /\ UNCHANGED viewVars
    /\ UNCHANGED techVars
    /\ UNCHANGED calcVars
    /\ UNCHANGED auditVars
    /\ UNCHANGED clearVars
    /\ UNCHANGED strategyVars
    /\ UNCHANGED channelVars

\* update_config(new)
UpdateConfig(new) ==
    /\ pc = "idle"
    /\ LET merged == new @@ config IN
        /\ config' = merged
        /\ min_confidence' = DictGet(new, "min_confidence", min_confidence)
        /\ max_signals_per_symbol' =
               DictGet(new, "max_signals_per_symbol", max_signals_per_symbol)
        /\ signal_cooldown' = DictGet(new, "signal_cooldown", signal_cooldown)
        /\ filter_rules' = initialize_filter_rules(merged)
    /\ UNCHANGED <<now, today, market_filters, risk_filters, signal_history,
                   symbol_last_signal, daily_signal_count, last_reset_date,
                   stats, pc, remaining, filtered_signals, context,
                   returned, last_eval, submitted, accepted_today>>
    /\ UNCHANGED genVars
    /\ UNCHANGED callerVars
    /\ UNCHANGED logVars
    /\ peer_config' = IF same_mapping THEN new @@ config ELSE peer_config
    /\ UNCHANGED <<same_mapping, peer_filter_rules, peer_own_config>>
    /\ UNCHANGED viewVars
    /\ UNCHANGED techVars
    /\ UNCHANGED calcVars
    /\ UNCHANGED auditVars
    /\ UNCHANGED clearVars
    /\ UNCHANGED strategyVars
    /\ UNCHANGED channelVars

\* update_config(new) on the second filter
PeerUpdateConfig(new) ==
    /\ pc = "idle"
    /\ peer_config' = new @@ peer_config
    /\ peer_filter_rules' = initialize_filter_rules(new @@ peer_config)
    /\ peer_own_config' = new @@ peer_own_config
    /\ config' = IF same_mapping THEN new @@ peer_config ELSE config
    /\ UNCHANGED same_mapping
    /\ UNCHANGED <<now, today, min_confidence, max_signals_per_symbol,
                   signal_cooldown, market_filters, risk_filters, signal_history,
                   symbol_last_signal, daily_signal_count, last_reset_date,
                   filter_rules, stats, pc, remaining, filtered_signals, context,
                   returned, last_eval, submitted, accepted_today>>
    /\ UNCHANGED genVars
    /\ UNCHANGED callerVars
    /\ UNCHANGED logVars
    /\ UNCHANGED viewVars
    /\ UNCHANGED techVars
    /\ UNCHANGED calcVars
    /\ UNCHANGED auditVars
    /\ UNCHANGED clearVars
    /\ UNCHANGED strategyVars
    /\ UNCHANGED channelVars

\* symbols passed to add_blacklist_symbol / remove_blacklist_symbol
BlacklistArgs == {BBB, aaa}

\* add_blacklist_symbol(symbol)
AddBlacklistSymbol(symbol) ==
    /\ pc = "idle"
    /\ risk_filters' = [risk_filters EXCEPT
                           !.blacklist_symbols = @ \cup {Upper(symbol)}]
    /\ UNCHANGED <<now, today, config, min_confidence, max_signals_per_symbol,
                   signal_cooldown, market_filters, signal_history,
                   symbol_last_signal, daily_signal_count, last_reset_date,
                   filter_rules, stats, pc, remaining, filtered_signals, context,
                   returned, last_eval, submitted, accepted_today>>
    /\ UNCHANGED genVars
    /\ blacklist_requests' = blacklist_requests \cup {symbol}
    /\ UNCHANGED logVars
    /\ UNCHANGED peerVars
    /\ UNCHANGED viewVars
    /\ UNCHANGED techVars
    /\ UNCHANGED calcVars
    /\ UNCHANGED auditVars
    /\ UNCHANGED clearVars
    /\ UNCHANGED strategyVars
    /\ UNCHANGED channelVars

\* remove_blacklist_symbol(symbol)
RemoveBlacklistSymbol(symbol) ==
    /\ pc = "idle"
    /\ risk_filters' = [risk_filters EXCEPT
                           !.blacklist_symbols = @ \ {Upper(symbol)}]
    /\ UNCHANGED <<now, today, config, min_confidence, max_signals_per_symbol,
                   signal_cooldown, market_filters, signal_history,
                   symbol_last_signal, daily_signal_count, last_reset_date,
                   filter_rules, stats, pc, remaining, filtered_signals, context,
                   returned, last_eval, submitted, accepted_today>>
    /\ UNCHANGED genVars
    /\ blacklist_requests' = blacklist_requests \ {symbol}
    /\ UNCHANGED logVars
    /\ UNCHANGED peerVars
    /\ UNCHANGED viewVars
    /\ UNCHANGED techVars
    /\ UNCHANGED calcVars
    /\ UNCHANGED auditVars
    /\ UNCHANGED clearVars
    /\ UNCHANGED strategyVars
    /\ UNCHANGED channelVars

\* variant: the daily counter is cleared as well
ClearHistoryAndCounter ==
    /\ pc = "idle"
    /\ signal_history' = <<>>
    /\ daily_signal_count' = 0
    /\ symbol_last_signal' = <<>>
    /\ UNCHANGED <<now, today, config, min_confidence, max_signals_per_symbol,
                   signal_cooldown, market_filters, risk_filters,
                   last_reset_date, filter_rules, stats,
                   pc, remaining, filtered_signals, context, returned,
                   last_eval, submitted, accepted_today>>
    /\ UNCHANGED genVars
    /\ UNCHANGED callerVars
    /\ UNCHANGED logVars
    /\ UNCHANGED peerVars
    /\ UNCHANGED viewVars
    /\ UNCHANGED techVars
    /\ UNCHANGED calcVars
    /\ UNCHANGED auditVars
    /\ history_clears' = history_clears + 1
    /\ UNCHANGED strategyVars
    /\ UNCHANGED channelVars

\* clear_history()
ClearHistory ==
    /\ pc = "idle"
    /\ signal_history' = <<>>
    /\ symbol_last_signal' = <<>>
    /\ UNCHANGED <<now, today, config, min_confidence, max_signals_per_symbol,
                   signal_cooldown, market_filters, risk_filters,
                   daily_signal_count, last_reset_date, filter_rules, stats,
                   pc, remaining, filtered_signals, context, returned,
                   last_eval, submitted, accepted_today>>
    /\ UNCHANGED genVars
    /\ UNCHANGED callerVars
    /\ UNCHANGED logVars
    /\ UNCHANGED peerVars
    /\ UNCHANGED viewVars
    /\ UNCHANGED techVars
    /\ UNCHANGED calcVars
    /\ UNCHANGED auditVars
    /\ history_clears' = history_clears + 1
    /\ UNCHANGED strategyVars
    /\ UNCHANGED channelVars

\* reset_stats()
ResetStats ==
    /\ pc = "idle"
    /\ stats' = EmptyStats
    /\ UNCHANGED <<now, today, config, min_confidence, max_signals_per_symbol,
                   signal_cooldown, market_filters, risk_filters, signal_history,
                   symbol_last_signal, daily_signal_count, last_reset_date,
                   filter_rules, pc, remaining, filtered_signals, context,
                   returned, last_eval, submitted, accepted_today>>
    /\ UNCHANGED genVars
    /\ UNCHANGED callerVars
    /\ UNCHANGED logVars
    /\ UNCHANGED peerVars
    /\ resets < MaxResets
    /\ resets' = resets + 1
    /\ UNCHANGED <<stats_view, blacklist_view>>
    /\ UNCHANGED techVars
    /\ UNCHANGED calcVars
    /\ invalid_seen' = 0
    /\ UNCHANGED last_call_empty
    /\ UNCHANGED clearVars
    /\ UNCHANGED strategyVars
    /\ UNCHANGED channelVars

\* get_stats(): a new dict, its filter_reasons a copy (dict(...)); the rate
\* in tenths of a per cent
get_stats ==
    [value |->
        [total_processed |-> stats.total_processed,
         total_filtered |-> stats.total_filtered,
         accepted_signals |-> stats.accepted_signals,
         filter_rate |-> IF stats.total_processed > 0
                         THEN (stats.total_filtered * 1000) \div stats.total_processed
                         ELSE 0,
         daily_signal_count |-> daily_signal_count,
         daily_limit |-> risk_filters.max_daily_signals,
         filter_reasons |-> stats.filter_reasons,
         blacklist_count |-> Cardinality(risk_filters.blacklist_symbols),
         active_rules |-> Len(filter_rules)],
     own |-> FALSE, written |-> FALSE]

\* variant: the set of the filter itself is returned
get_blacklist_uncopied ==
    [value |-> risk_filters.blacklist_symbols, own |-> TRUE, written |-> FALSE]

\* get_blacklist(): a copy of the set
get_blacklist ==
    [value |-> risk_filters.blacklist_symbols, own |-> FALSE, written |-> FALSE]

GetStats ==
    /\ pc = "idle"
    /\ stats_view' = Some(get_stats)
    /\ UNCHANGED <<blacklist_view, resets>>
    /\ UNCHANGED techVars
    /\ UNCHANGED calcVars
    /\ UNCHANGED auditVars
    /\ UNCHANGED clearVars
    /\ UNCHANGED strategyVars
    /\ UNCHANGED channelVars
    /\ UNCHANGED <<now, today>>
    /\ UNCHANGED filterVars
    /\ UNCHANGED genVars
    /\ UNCHANGED callerVars
    /\ UNCHANGED logVars
    /\ UNCHANGED peerVars

GetBlacklist ==
    /\ pc = "idle"
    /\ blacklist_view' = Some(get_blacklist)
    /\ UNCHANGED <<stats_view, resets>>
    /\ UNCHANGED techVars
    /\ UNCHANGED calcVars
    /\ UNCHANGED auditVars
    /\ UNCHANGED clearVars
    /\ UNCHANGED strategyVars
    /\ UNCHANGED channelVars
    /\ UNCHANGED <<now, today>>
    /\ UNCHANGED filterVars
    /\ UNCHANGED genVars
    /\ UNCHANGED callerVars
    /\ UNCHANGED logVars
    /\ UNCHANGED peerVars

\* the caller writes to the dict it got from get_stats: a total, and a
\* count of the nested filter_reasons
WriteStatsView ==
    /\ pc = "idle"
    /\ ~IsNone(stats_view)
    /\ ~Val(stats_view).written
    /\ LET view == Val(stats_view)
           value == [view.value EXCEPT
                        !.total_processed = @ + 1,
                        !.filter_reasons = Counted(@, "low_confidence")]
       IN /\ stats_view' = Some([view EXCEPT !.value = value, !.written = TRUE])
          /\ stats' = IF view.own
                       THEN [stats EXCEPT !.total_processed = value.total_processed,
                                          !.filter_reasons = value.filter_reasons]
                       ELSE stats
    /\ UNCHANGED <<blacklist_view, resets>>
    /\ UNCHANGED techVars
    /\ UNCHANGED calcVars
    /\ UNCHANGED auditVars
    /\ UNCHANGED clearVars
    /\ UNCHANGED strategyVars
    /\ UNCHANGED channelVars
    /\ UNCHANGED <<now, today, config, min_confidence, max_signals_per_symbol,
                   signal_cooldown, market_filters, risk_filters, signal_history,
                   symbol_last_signal, daily_signal_count, last_reset_date,
                   filter_rules, pc, remaining, filtered_signals, context,
                   returned, last_eval, submitted, accepted_today>>
    /\ UNCHANGED genVars
    /\ UNCHANGED callerVars
    /\ UNCHANGED logVars
    /\ UNCHANGED peerVars

\* the caller adds a symbol to the set it got from get_blacklist
WriteBlacklistView(symbol) ==
    /\ pc = "idle"
    /\ ~IsNone(blacklist_view)
    /\ ~Val(blacklist_view).written
    /\ LET view == Val(blacklist_view)
           value == view.value \cup {symbol}
       IN /\ blacklist_view' = Some([view EXCEPT !.value = value, !.written = TRUE])
          /\ risk_filters' = IF view.own
                              THEN [risk_filters EXCEPT !.blacklist_symbols = value]
                              ELSE risk_filters
    /\ UNCHANGED <<stats_view, resets>>
    /\ UNCHANGED techVars
    /\ UNCHANGED calcVars
    /\ UNCHANGED auditVars
    /\ UNCHANGED clearVars
    /\ UNCHANGED strategyVars
    /\ UNCHANGED channelVars
    /\ UNCHANGED <<now, today, config, min_confidence, max_signals_per_symbol,
                   signal_cooldown, market_filters, signal_history,
                   symbol_last_signal, daily_signal_count, last_reset_date,
                   filter_rules, stats, pc, remaining, filtered_signals, context,
                   returned, last_eval, submitted, accepted_today>>
    /\ UNCHANGED genVars
    /\ UNCHANGED callerVars
    /\ UNCHANGED logVars
    /\ UNCHANGED peerVars

\* ------------------------------------------------ TradingSignalGenerator
\* defaults of TradingSignalGenerator.__init__ (times in seconds, confidence
\* in hundredths)
GenSmaLongPeriod == 20
GenRsiPeriod == 14
GenBbPeriod == 20
GenMinConfidence == 50
GenSignalCooldown == 300
\* _is_duplicate_signal: entries looked at, and their largest age
GenDupLookback == 10
GenDupWindow == 300
\* _update_stats: age below which a signal counts as active
GenActiveWindow == 3600
\* MathUtils.calculate_volatility: default period
VolatilityPeriod == 20

\* MarketData(symbol, klines)
MkMarketData(symbol, klines) == [symbol |-> symbol, klines |-> klines]

\* n well-formed bars, the one at position k with a close of 0
BarsWithZeroClose(n, k) ==
    [i \in 1..n |-> MkKline(IF i = k THEN 0 ELSE 100000, Some(2000))]

\* the market_data argument of generate_signals
GenMarketInputs ==
    { None,
      Some(MkMarketData(AAA, <<>>)),
      Some(MkMarketData(AAA, Bars(19, 100000, Some(2000)))),
      Some(MkMarketData(AAA, Bars(21, 100000, Some(2000)))),
      Some(MkMarketData(BBB, Bars(20, 200000, Some(2000)))),
      Some(MkMarketData(AAA, BarsWithZeroClose(21, 21))),
      Some(MkMarketData(BBB, Bars(20, 200000, None))) }

\* The candidates that _generate_ma_crossover_signal, _generate_rsi_signal,
\* _generate_bollinger_signal and _generate_volume_signal derive from the
\* indicators are an input of the model: each is built for the symbol of
\* the market data at its latest close, stamped with the clock.
RawSignals(market_data, t) ==
    IF IsNone(market_data) \/ Val(market_data).klines = <<>> THEN { <<>> }
    ELSE LET symbol == Val(market_data).symbol
             klines == Val(market_data).klines
             price == klines[Len(klines)].close
         IN { <<>>,
              << MkSignal("g1", symbol, "BUY", price, 70, "MODERATE", t * 1000) >>,
              << MkSignal("g1", symbol, "BUY", price, 70, "MODERATE", t * 1000),
                 MkSignal("g2", symbol, "SELL", price, 80, "STRONG", t * 1000) >>,
              << MkSignal("g3", symbol, "SELL", price, 40, "WEAK", t * 1000) >> }

SameSign(a, b) == (a > 0 /\ b > 0) \/ (a < 0 /\ b < 0)

\* MathUtils.calculate_volatility raises: math.log(prices[i] / prices[i-1])
\* divides by zero or leaves the domain of log
volatility_raises(prices, period) ==
    /\ ~(Len(prices) < period + 1)
    /\ \E i \in 2..Len(prices) : ~SameSign(prices[i], prices[i - 1])

\* _calculate_indicators raises (and re-raises as SignalGenerationError):
\* the volatility of the closes, or the moving average of volumes that are
\* not all numbers
calculate_indicators_raises(prices, volumes) ==
    \/ volatility_raises(prices, VolatilityPeriod)
    \/ /\ volumes # <<>>
       /\ ~(Len(volumes) < 20)
       /\ \E i \in 1..Len(volumes) : IsNone(volumes[i])

\* variant: a call exactly signal_cooldown seconds later is suppressed too
is_in_cooldown_inclusive(symbol) ==
    now - DictGet(gen_last_signal_time, symbol, 0) <= GenSignalCooldown

\* _is_in_cooldown
is_in_cooldown(symbol) ==
    now - DictGet(gen_last_signal_time, symbol, 0) < GenSignalCooldown

\* _is_duplicate_signal: only symbol and side are compared
is_duplicate_signal(signal) ==
    LET recent == Tail_n(gen_signal_history, GenDupLookback) IN
    \E i \in 1..Len(recent) :
        /\ ~(now * 1000 - recent[i].timestamp > GenDupWindow * 1000)
        /\ recent[i].symbol = signal.symbol
        /\ recent[i].side = signal.side

\* TradingSignalGenerator.filter_signals
gen_filter_signals(signals) ==
    SelectSeq(signals, LAMBDA x :
        /\ validate_signal(x) = <<>>
        /\ ~(x.confidence < GenMinConfidence)
        /\ ~is_duplicate_signal(x))

\* _update_stats, the loop: history and last-signal times after the signals
RECURSIVE GenHistoryAfter(_, _)
GenHistoryAfter(history, signals) ==
    IF signals = <<>> THEN history
    ELSE GenHistoryAfter(UpdatedHistory(history, Head(signals)), Tail(signals))

GenLastTimeAfter(last, signals, t) ==
    [sym \in DOMAIN last \cup { signals[i].symbol : i \in 1..Len(signals) } |->
        IF \E i \in 1..Len(signals) : signals[i].symbol = sym
        THEN t ELSE last[sym]]

RECURSIVE SumConfidence(_)
SumConfidence(signals) ==
    IF signals = <<>> THEN 0
    ELSE Head(signals).confidence + SumConfidence(Tail(signals))

\* _update_stats: the statistics it leaves, and whether the division by
\* len(signals) raised
update_stats(signals) ==
    LET history == GenHistoryAfter(gen_signal_history, signals)
        active == Cardinality({ i \in 1..Len(history) :
                      now * 1000 - history[i].timestamp < GenActiveWindow * 1000 })
        total == gen_stats.total_signals_generated + Len(signals)
        counted == [gen_stats EXCEPT !.active_signals = active,
                                     !.total_signals_generated = total]
    IN IF total > 0
       THEN IF Len(signals) = 0
            THEN [stats |-> counted, raised |-> TRUE]
            ELSE [stats |-> [counted EXCEPT !.avg_confidence =
                                [sum |-> SumConfidence(signals),
                                 count |-> Len(signals)]],
                  raised |-> FALSE]
       ELSE [stats |-> counted, raised |-> FALSE]

\* the symbol a call of generate_signals is for
CallSymbol(market_data) ==
    IF IsNone(market_data) THEN <<>> ELSE Val(market_data).symbol

\* how a call ended, with what it was called for: the symbol and the number
\* of bars of the market data, and the signals of the builders when they ran
Ended(kind, value, market_data, raw) ==
    [kind |-> kind, value |-> value, symbol |-> CallSymbol(market_data),
     bars |-> IF IsNone(market_data) THEN 0 ELSE Len(Val(market_data).klines),
     raw |-> raw]

\* generate_signals(market_data), the builders yielding raw
GenerateSignals(market_data, raw) ==
    /\ IF IsNone(market_data) \/ Val(market_data).klines = <<>>
       THEN /\ gen_result' = Ended("list", <<>>, market_data, <<>>)
            /\ UNCHANGED <<gen_last_signal_time, gen_signal_history,
                           gen_market_data_cache, gen_stats>>
       ELSE LET md == Val(market_data)
                symbol == md.symbol
                prices == [i \in 1..Len(md.klines) |-> md.klines[i].close]
                volumes == [i \in 1..Len(md.klines) |-> md.klines[i].volume]
                cached == [sym \in DOMAIN gen_market_data_cache \cup {symbol} |->
                              IF sym = symbol THEN md
                              ELSE gen_market_data_cache[sym]]
                filtered_signals_ == gen_filter_signals(raw)
                updated == update_stats(filtered_signals_)
            IN IF is_in_cooldown(symbol)
               THEN /\ gen_result' = Ended("list", <<>>, market_data, <<>>)
                    /\ UNCHANGED <<gen_last_signal_time, gen_signal_history,
                                   gen_market_data_cache, gen_stats>>
               ELSE IF Len(prices) < Max3(GenSmaLongPeriod, GenRsiPeriod, GenBbPeriod)
               THEN /\ gen_market_data_cache' = cached
                    /\ gen_result' = Ended("list", <<>>, market_data, <<>>)
                    /\ UNCHANGED <<gen_last_signal_time, gen_signal_history,
                                   gen_stats>>
               ELSE IF calculate_indicators_raises(prices, volumes)
               THEN /\ gen_market_data_cache' = cached
                    /\ gen_result' = Ended("raised", <<>>, market_data, <<>>)
                    /\ UNCHANGED <<gen_last_signal_time, gen_signal_history,
                                   gen_stats>>
               ELSE /\ gen_market_data_cache' = cached
                    /\ gen_last_signal_time' =
                          GenLastTimeAfter(gen_last_signal_time,
                                           filtered_signals_, now)
                    /\ gen_signal_history' =
                          GenHistoryAfter(gen_signal_history, filtered_signals_)
                    /\ gen_stats' = updated.stats
                    /\ gen_result' =
                          IF updated.raised
                          THEN Ended("raised", <<>>, market_data, raw)
                          ELSE Ended("list", filtered_signals_, market_data, raw)
    /\ UNCHANGED <<now, today>>
    /\ UNCHANGED filterVars
    /\ UNCHANGED callerVars
    /\ gen_accepted_log' = IF gen_result'.kind = "list"
                           THEN gen_accepted_log \o gen_result'.value
                           ELSE gen_accepted_log
    /\ UNCHANGED accepted_log
    /\ UNCHANGED peerVars
    /\ UNCHANGED viewVars
    /\ UNCHANGED techVars
    /\ UNCHANGED calcVars
    /\ UNCHANGED auditVars
    /\ UNCHANGED clearVars
    /\ UNCHANGED strategyVars
    /\ UNCHANGED channelVars

Next ==
    \/ Tick
    \/ Rollover
    \/ FilterEmpty
    \/ \E n \in 1..MaxBatch, md \in MarketInputs :
          submitted + n <= MaxProcessed /\ BeginFilter(n, md)
    \/ \E signal \in Candidates(now) : ProcessSignal(signal)
    \/ ReturnFiltered
    \/ \E new \in ConfigUpdates : UpdateConfig(new)

Spec == Init /\ [][Next]_vars

\* filter_signals fed with structurally invalid candidates of every kind
NextValidation ==
    \/ \E n \in 1..MaxBatch, md \in MarketInputs :
          submitted + n <= MaxProcessed /\ BeginFilter(n, md)
    \/ \E signal \in ValidationCandidates(now) : ProcessSignal(signal)
    \/ ReturnFiltered

SpecValidation == Init /\ [][NextValidation]_vars

\* one filter_signals call on a batch of mutually dissimilar candidates
NextPost ==
    \/ \E n \in 1..MaxPostBatch :
          submitted = 0 /\ BeginFilter(n, <<>>)
    \/ \E signal \in PostCandidates(now) : ProcessSignal(signal)
    \/ ReturnFiltered

SpecPost == InitWith(PostConfigs) /\ [][NextPost]_vars

\* Calls of filter_signals with one candidate each: first an AAA candidate
\* with a fresh or an old timestamp, then fillers, and at any point an AAA
\* candidate close to the first one or 3% away from it, which ends the run.
\* The clock advances between the first two calls only.
DupFeed(t) ==
    IF signal_history = <<>>
    THEN { MkSignal("a1", AAA, "BUY", 100000, 70, "MODERATE", t * 1000),
           MkSignal("a6", AAA, "BUY", 100000, 70, "MODERATE", (t - 900) * 1000) }
    ELSE { Filler(Len(signal_history), t),
           MkSignal("a2", AAA, "BUY", 100500, 75, "MODERATE", t * 1000),
           MkSignal("a3", AAA, "BUY", 103000, 70, "MODERATE", t * 1000) }

FeedOpen ==
    /\ stats.total_processed = Len(signal_history)
    /\ Len(signal_history) <= DupLookback + 1
    /\ IF Len(signal_history) <= 1 THEN TRUE
       ELSE signal_history[Len(signal_history)].symbol # AAA

NextDuplicates ==
    \/ Len(signal_history) = 1 /\ pc = "idle" /\ Tick
    \/ FeedOpen /\ BeginFilter(1, <<>>)
    \/ \E signal \in DupFeed(now) : ProcessSignal(signal)
    \/ ReturnFiltered

SpecDuplicates == InitWith(DupConfigs) /\ [][NextDuplicates]_vars

\* filter_signals with market data of every kind for the volatility rule
VolCandidates(t) ==
    { MkSignal("a1", AAA, "BUY", 100000, 70, "MODERATE", t * 1000),
      MkSignal("a3", AAA, "BUY", 103000, 70, "MODERATE", t * 1000),
      MkSignal("a7", AAA, "BUY", 100000, 30, "WEAK", t * 1000),
      MkSignal("b1", BBB, "SELL", 200000, 90, "STRONG", t * 1000) }

NextVolatility ==
    \/ \E n \in 1..MaxBatch, md \in VolMarketInputs :
          submitted + n <= MaxProcessed /\ BeginFilter(n, md)
    \/ \E signal \in VolCandidates(now) : ProcessSignal(signal)
    \/ ReturnFiltered

SpecVolatility == InitWith(VolConfigs) /\ [][NextVolatility]_vars

\* filter_signals between calls of add_blacklist_symbol and
\* remove_blacklist_symbol; one candidate writes its symbol in lower case
BlacklistCandidates(t) ==
    { MkSignal("a1", AAA, "BUY", 100000, 70, "MODERATE", t * 1000),
      MkSignal("l1", aaa, "BUY", 100000, 70, "MODERATE", t * 1000),
      MkSignal("b1", BBB, "SELL", 200000, 90, "STRONG", t * 1000),
      MkSignal("b7", BBB, "SELL", 200000, 30, "WEAK", t * 1000) }

NextBlacklist ==
    \/ \E symbol \in BlacklistArgs : AddBlacklistSymbol(symbol)
    \/ \E symbol \in BlacklistArgs : RemoveBlacklistSymbol(symbol)
    \/ submitted + 1 <= MaxProcessed /\ BeginFilter(1, <<>>)
    \/ \E signal \in BlacklistCandidates(now) : ProcessSignal(signal)
    \/ ReturnFiltered

SpecBlacklist == InitWith(BlacklistConfigs) /\ [][NextBlacklist]_vars

\* filter_signals and update_config under configurations that switch rules
\* off
ToggleCandidates(t) ==
    { MkSignal("a1", AAA, "BUY", 100000, 70, "MODERATE", t * 1000),
      MkSignal("a7", AAA, "BUY", 100000, 30, "WEAK", t * 1000),
      MkSignal("a8", AAA, "BUY", 5, 70, "MODERATE", t * 1000),
      MkSignal("b1", BBB, "SELL", 200000, 90, "STRONG", t * 1000) }

ToggleUpdates ==
    { [daily_limit_enabled |-> FALSE], [daily_limit_enabled |-> TRUE],
      [volatility_filter_enabled |-> FALSE],
      [confidence_filter_enabled |-> FALSE] }

NextToggle ==
    \/ \E new \in ToggleUpdates : UpdateConfig(new)
    \/ \E n \in 1..MaxBatch, md \in {<<>>, AAA :> Bars(12, 100000, Some(500))} :
          submitted + n <= MaxProcessed /\ BeginFilter(n, md)
    \/ \E signal \in ToggleCandidates(now) : ProcessSignal(signal)
    \/ ReturnFiltered

SpecToggle == InitWith(ToggleConfigs) /\ [][NextToggle]_vars

\* A long run of acceptances: either the filter is fed one fresh candidate
\* after another, or the generator is called for one fresh symbol after
\* another, until HistoryRun signals are accepted. Batches of several
\* candidates, rejected candidates and calls that emit one signal or none
\* come at the start and around the trim.
HistoryFiller(i, t) == [Filler(i, t) EXCEPT !.price = 50000 + i]

HistoryEdge(log) == log = <<>> \/ Len(log) >= HistoryMax - 3

HistoryFeed(t) ==
    { HistoryFiller(Len(accepted_log), t) }
    \cup IF HistoryEdge(accepted_log) /\ stats.total_filtered = 0
         THEN { MkSignal("a7", AAA, "BUY", 100000, 30, "WEAK", t * 1000) }
         ELSE {}

GenFillerSymbol(i) ==
    <<"C", Digit((i \div 100) % 10), Digit((i \div 10) % 10), Digit(i % 10)>>

GenHistoryInput ==
    Some(MkMarketData(GenFillerSymbol(Cardinality(DOMAIN gen_market_data_cache)),
                      Bars(20, 100000, Some(2000))))

\* calls that emit two signals, and at the start and around the trim up to
\* three calls that emit one signal or none
GenHistoryFeed(market_data, t) ==
    { raw \in RawSignals(market_data, t) :
        \/ Len(gen_filter_signals(raw)) = 2
        \/ /\ HistoryEdge(gen_accepted_log)
           /\ raw # <<>>
           /\ 2 * (Cardinality(DOMAIN gen_market_data_cache) + 1)
                 - (Len(gen_accepted_log) + Len(gen_filter_signals(raw))) <= 3 }

NextHistory ==
    \/ /\ Len(accepted_log) < HistoryRun
       /\ gen_result.kind = "none"
       /\ \E n \in 1..MaxBatch :
             /\ n = 1 \/ HistoryEdge(accepted_log)
             /\ BeginFilter(n, <<>>)
    \/ \E signal \in HistoryFeed(now) : ProcessSignal(signal)
    \/ ReturnFiltered
    \/ /\ submitted = 0
       /\ Len(gen_accepted_log) < HistoryRun
       /\ \E raw \in GenHistoryFeed(GenHistoryInput, now) :
             GenerateSignals(GenHistoryInput, raw)

SpecHistory == InitWith(HistoryConfigs) /\ [][NextHistory]_vars

\* two filters: every operation of the first, update_config of the second
PeerUpdates ==
    { [daily_limit_enabled |-> FALSE], [daily_limit_enabled |-> TRUE],
      [min_confidence |-> 60] }

NextIsolation ==
    \/ \E new \in ConfigUpdates : UpdateConfig(new)
    \/ \E new \in PeerUpdates : PeerUpdateConfig(new)
    \/ \E symbol \in BlacklistArgs : AddBlacklistSymbol(symbol)
    \/ \E symbol \in BlacklistArgs : RemoveBlacklistSymbol(symbol)
    \/ history_clears < MaxClears /\ ClearHistory
    \/ ResetStats
    \/ submitted + 1 <= MaxProcessed /\ BeginFilter(1, <<>>)
    \/ \E signal \in BlacklistCandidates(now) : ProcessSignal(signal)
    \/ ReturnFiltered

SpecIsolation == InitInstances(InitConfigs, BOOLEAN) /\ [][NextIsolation]_vars

\* filter_signals, reset_stats, and a caller that writes to what get_stats
\* and get_blacklist returned
StatsConfigs == { MkConfig(50, 3, 0, 20, FALSE, TRUE, {BBB}) }

StatsCandidates(t) ==
    { MkSignal("a1", AAA, "BUY", 100000, 70, "MODERATE", t * 1000),
      MkSignal("a7", AAA, "BUY", 100000, 30, "WEAK", t * 1000),
      MkSignal("b1", BBB, "SELL", 200000, 90, "STRONG", t * 1000) }

NextStats ==
    \/ submitted + 1 <= MaxProcessed /\ BeginFilter(1, <<>>)
    \/ \E signal \in StatsCandidates(now) : ProcessSignal(signal)
    \/ ReturnFiltered
    \/ ResetStats
    \/ GetStats
    \/ GetBlacklist
    \/ WriteStatsView
    \/ WriteBlacklistView(AAA)

SpecStats == InitWith(StatsConfigs) /\ [][NextStats]_vars

\* generate_signals for one symbol at two price levels 3% apart
GenDupInputs ==
    { Some(MkMarketData(AAA, Bars(21, 100000, Some(2000)))),
      Some(MkMarketData(AAA, Bars(21, 103000, Some(2000)))) }

NextGenDuplicates ==
    \/ Tick
    \/ \E market_data \in GenDupInputs :
          \E raw \in RawSignals(market_data, now) :
             GenerateSignals(market_data, raw)

SpecGenDuplicates == Init /\ [][NextGenDuplicates]_vars

\* generate_signals of either generator, with market data of every length
NextLookback ==
    \/ Tick
    \/ /\ tech_result.kind = "none"
       /\ \E market_data \in GenMarketInputs :
             \E raw \in RawSignals(market_data, now) :
                GenerateSignals(market_data, raw)
    \/ /\ gen_result.kind = "none"
       /\ tech_result.kind = "none"
       /\ \E bars \in TechBars, cfg \in TechConfigs, scores \in TechScores :
             TechnicalGenerate(bars, cfg, scores)

SpecLookback == Init /\ [][NextLookback]_vars

\* filter_signals with several candidates of one symbol in a batch, under
\* a positive cooldown and every per-symbol cap from 1 on, the daily limit
\* switched off; the clock advances between and inside the calls
CooldownConfigs ==
    { MkConfig(50, cap, cooldown, 20, FALSE, FALSE, {}) :
        cap \in 1..MaxCap, cooldown \in {1, 300} }

NextCooldown ==
    \/ Tick
    \/ \E n \in 1..CooldownBatch :
          submitted + n <= CooldownBatch /\ BeginFilter(n, <<>>)
    \/ \E signal \in PostCandidates(now) : ProcessSignal(signal)
    \/ ReturnFiltered

SpecCooldown == InitWith(CooldownConfigs) /\ [][NextCooldown]_vars

\* filter_signals on valid and invalid candidates, with rules that reject
\* and a rule that raises, a per-symbol cap of 1 and no cooldown, and
\* reset_stats between the calls
AccountingConfigs == { MkConfig(50, 1, 0, 20, FALSE, TRUE, {}) }

NextAccounting ==
    \/ \E n \in 1..MaxBatch, md \in MarketInputs :
          submitted + n <= AccountingRun /\ BeginFilter(n, md)
    \/ \E signal \in Candidates(now) : ProcessSignal(signal)
    \/ ReturnFiltered
    \/ ResetStats

SpecAccounting == InitWith(AccountingConfigs) /\ [][NextAccounting]_vars

\* update_config with configurations that name every parameter, between
\* calls of filter_signals
FrameConfigs == { MkConfig(50, 3, 300, 20, TRUE, TRUE, {}) }

FrameUpdates ==
    { [min_volume |-> 5, min_price |-> 5000000, volatility_threshold |-> 1],
      [max_daily_signals |-> 0, blacklist_symbols |-> {AAA}],
      [min_confidence |-> 80],
      [max_signals_per_symbol |-> 1, signal_cooldown |-> 0],
      [daily_limit_enabled |-> FALSE],
      [volatility_filter_enabled |-> FALSE] }

NextFrame ==
    \/ \E new \in FrameUpdates : UpdateConfig(new)
    \/ \E md \in MarketInputs :
          submitted + 1 <= MaxProcessed /\ BeginFilter(1, md)
    \/ \E signal \in ToggleCandidates(now) : ProcessSignal(signal)
    \/ ReturnFiltered

SpecFrame == InitWith(FrameConfigs) /\ [][NextFrame]_vars

\* clear_history between calls of filter_signals, with a cooldown or with
\* the duplicate rule deciding, and a daily limit of 2
ClearConfigs ==
    { MkConfig(50, 3, 300, 2, FALSE, TRUE, {}),
      MkConfig(50, 3, 0, 2, FALSE, TRUE, {}) }

NextClear ==
    \/ Tick
    \/ Rollover
    \/ submitted + 1 <= ClearRun /\ BeginFilter(1, <<>>)
    \/ \E signal \in ToggleCandidates(now) : ProcessSignal(signal)
    \/ ReturnFiltered
    \/ history_clears < MaxClears /\ ClearHistory

SpecClear == InitWith(ClearConfigs) /\ [][NextClear]_vars

\* the calls of the lifecycle of one strategy, in any order
NextStrategy ==
    \/ /\ strategy_call.n < MaxStrategyCalls
       /\ \/ \E config_ok \in BOOLEAN : Initialize(config_ok)
          \/ Pause
          \/ Resume
          \/ \E hook_ok \in BOOLEAN : Stop(hook_ok)
          \/ \E check \in MarketDataChecks : ProcessMarketData(check)
    \/ \E ok \in BOOLEAN : DoInitializeResumes(ok)

SpecStrategy == Init /\ [][NextStrategy]_vars

\* send_with_retry calls on one channel, with enable, disable and
\* set_status between the calls and while a call is suspended
NextChannel ==
    \/ send_call.n < MaxSends /\ SendWithRetry
    \/ \E result \in SendOutcomes : SendNotificationReturns(result)
    \/ SleepReturns
    \/ Enable
    \/ Disable
    \/ \E status \in ChannelStatuses : SetStatus(status)

SpecChannel == Init /\ [][NextChannel]_vars

\* one call of a pure function
NextMath ==
    /\ ~sma_call.called
    /\ ~macd_call.called
    /\ crossover_call.op = "none"
    /\ \/ \E prices \in Series, period \in Periods :
             CalculateSma(prices, period)
       \/ \E prices \in Series, fast_period, slow_period, signal_period \in Periods :
             /\ fast_period < slow_period
             /\ CalculateMacd(prices, fast_period, slow_period, signal_period)
       \/ \E prices \in Series, short, long \in Periods :
             /\ short < long
             /\ GenerateMaCrossoverSignal(prices, short, long)
       \/ \E prices \in Series, fast_period, slow_period \in Periods,
               ma_type \in {"SMA", "EMA"} :
             /\ fast_period < slow_period
             /\ CheckMaCrossover(prices, fast_period, slow_period, ma_type)

SpecMath == Init /\ [][NextMath]_vars

\* generate_signals called again and again while the clock advances
NextGen ==
    \/ Tick
    \/ \E market_data \in GenMarketInputs :
          \E raw \in RawSignals(market_data, now) :
             GenerateSignals(market_data, raw)

SpecGen == Init /\ [][NextGen]_vars

\* ================================================================ claims
\* ---------------------------------------------------- shared vocabulary
RuleNames(rules) == [i \in 1..Len(rules) |-> rules[i].name]

RuleEnabled(name) == \E i \in 1..Len(filter_rules) : filter_rules[i].name = name

\* the documented evaluation order
DocumentedOrder ==
    << "confidence_filter", "cooldown_filter", "volume_filter", "price_filter",
       "volatility_filter", "blacklist_filter", "duplicate_filter",
       "daily_limit_filter" >>

\* the rule that logs a given rejection reason
RuleOfReason(reason) ==
    CASE reason = "low_confidence" -> "confidence_filter"
      [] reason = "cooldown" -> "cooldown_filter"
      [] reason = "low_volume" -> "volume_filter"
      [] reason = "low_price" -> "price_filter"
      [] reason = "high_volatility" -> "volatility_filter"
      [] reason = "blacklisted" -> "blacklist_filter"
      [] reason = "duplicate" -> "duplicate_filter"
      [] reason = "daily_limit" -> "daily_limit_filter"
      [] OTHER -> "none"

\* indices of the enabled rules that do not accept the candidate
NotAccepting(sig) ==
    { i \in 1..Len(filter_rules) :
        filter_func(filter_rules[i].name, sig, context) # Accept }

PassesEveryRule(sig) == NotAccepting(sig) = {}

\* defaultdict total
RECURSIVE SumOver(_, _)
SumOver(f, keys) ==
    IF keys = {} THEN 0
    ELSE LET k == CHOOSE x \in keys : TRUE IN f[k] + SumOver(f, keys \ {k})

ReasonTotal(st) == SumOver(st.filter_reasons, DOMAIN st.filter_reasons)

\* a step of the loop of filter_signals, and the candidate it handles
Handles == pc = "loop" /\ remaining' = remaining - 1
Candidate == Val(last_eval'.signal)

\* ------------------------------------------------------------------- C1
\* C1: in the loop of filter_signals the per-symbol last-accepted time, the
\* history and the daily counter change only for a candidate that passes
\* structural validation and every enabled rule; for such a candidate the
\* last-accepted time of its symbol (and of no other) is set to the clock,
\* the signal is appended to the history and the counter grows by exactly 1;
\* a candidate that fails validation, is rejected by a rule or whose rule
\* raises leaves all three unchanged.
C1_StateChangesOnlyOnAcceptance ==
    [][ Handles =>
          IF ~FailsValidation(Candidate) /\ PassesEveryRule(Candidate)
          THEN /\ DOMAIN symbol_last_signal' =
                     DOMAIN symbol_last_signal \cup {Candidate.symbol}
               /\ symbol_last_signal'[Candidate.symbol] = now
               /\ \A sym \in DOMAIN symbol_last_signal \ {Candidate.symbol} :
                     symbol_last_signal'[sym] = symbol_last_signal[sym]
               /\ Len(signal_history) < HistoryMax
                     => signal_history' = Append(signal_history, Candidate)
               /\ daily_signal_count' = daily_signal_count + 1
          ELSE UNCHANGED <<symbol_last_signal, signal_history,
                           daily_signal_count>> ]_vars

\* a second candidate of a batch was turned down by a raising rule after the
\* first one had been accepted and recorded
C1_Witness ==
    /\ last_eval.verdict = "raised"
    /\ last_eval.position = 2
    /\ Len(signal_history) = 1
    /\ daily_signal_count = 1
    /\ DOMAIN symbol_last_signal = {signal_history[1].symbol}

\* ------------------------------------------------------------------- C2
\* C2: the rule list holds the enabled rules in the documented order of
\* ascending priority; for every candidate the rules run are an initial
\* part of that list ending with the first rule that does not accept it (all
\* of the list if every rule accepts), and handling one candidate counts at
\* most one rejection reason.
C2_PriorityOrderShortCircuit ==
    /\ [](RuleNames(filter_rules)
            = SelectSeq(DocumentedOrder, LAMBDA name :
                  CASE name = "volatility_filter" -> config.volatility_filter_enabled
                    [] name = "daily_limit_filter" -> config.daily_limit_enabled
                    [] OTHER -> TRUE))
    /\ [](\A i, j \in 1..Len(filter_rules) :
            i < j => filter_rules[i].priority < filter_rules[j].priority)
    /\ [][ (Handles /\ ~FailsValidation(Candidate)) =>
             LET stop == NotAccepting(Candidate) IN
             IF stop = {}
             THEN /\ last_eval'.verdict = "accepted"
                  /\ last_eval'.evaluated = RuleNames(filter_rules)
                  /\ ReasonTotal(stats') = ReasonTotal(stats)
             ELSE LET first == CHOOSE i \in stop : \A k \in stop : i <= k IN
                  /\ last_eval'.verdict \in {"rejected", "raised"}
                  /\ last_eval'.evaluated
                         = SubSeq(RuleNames(filter_rules), 1, first)
                  /\ last_eval'.verdict = "rejected" =>
                        /\ RuleOfReason(last_eval'.reason)
                              = filter_rules[first].name
                        /\ ReasonTotal(stats') = ReasonTotal(stats) + 1
                  /\ last_eval'.verdict = "raised" =>
                        ReasonTotal(stats') = ReasonTotal(stats) ]_vars

\* a candidate went through six rules and was rejected by the seventh
C2_Witness ==
    /\ last_eval.verdict = "rejected"
    /\ last_eval.reason = "duplicate"
    /\ Len(last_eval.evaluated) = 7
    /\ ReasonTotal(stats) = 1

\* ------------------------------------------------------------------- C3
\* C3: a valid candidate with sufficient confidence for a symbol accepted
\* before is rejected with reason "cooldown" when the call's time minus the
\* symbol's last-accepted time is below signal_cooldown (zero elapsed time
\* included); when that difference is at least signal_cooldown, or the
\* symbol was never accepted, the cooldown rule does not reject it.  "now"
\* is the time the call took when it built its context.
C3_Cooldown ==
    [][ ( /\ Handles
          /\ ~FailsValidation(Candidate)
          /\ Candidate.confidence >= min_confidence ) =>
            IF /\ Candidate.symbol \in DOMAIN symbol_last_signal
               /\ context.current_time - symbol_last_signal[Candidate.symbol]
                     < signal_cooldown
            THEN /\ last_eval'.verdict = "rejected"
                 /\ last_eval'.reason = "cooldown"
            ELSE last_eval'.reason # "cooldown" ]_vars

\* a candidate for an already accepted symbol was rejected by the cooldown
C3_Witness ==
    /\ last_eval.verdict = "rejected"
    /\ last_eval.reason = "cooldown"
    /\ Val(last_eval.signal).symbol \in DOMAIN symbol_last_signal
    /\ signal_cooldown > 0

C5_AsStated ==
    RuleEnabled("daily_limit_filter") =>
        /\ 0 <= daily_signal_count
        /\ daily_signal_count <= risk_filters.max_daily_signals
        /\ accepted_today <= risk_filters.max_daily_signals

\* C5: the counter is never negative; it changes only by growing by 1 with an
\* accepted candidate or by being set to 0 when a non-empty filter_signals
\* call starts on a date other than the recorded one, so it is the number of
\* candidates accepted since that last reset; while the daily_limit rule is
\* enabled a counter within max_daily_signals stays within it, and no
\* candidate is accepted at a counter that has reached max_daily_signals.
\* (The bound is per reset, not per calendar day, and holds from construction
\* only as long as update_config does not switch the rule off.)
C5_CounterBoundedBetweenResets ==
    /\ [](daily_signal_count >= 0)
    /\ [][ daily_signal_count' # daily_signal_count =>
             \/ /\ Handles
                /\ last_eval'.verdict = "accepted"
                /\ daily_signal_count' = daily_signal_count + 1
             \/ /\ pc = "idle" /\ pc' = "loop"
                /\ today # last_reset_date
                /\ daily_signal_count' = 0 ]_vars
    /\ [][ ( /\ RuleEnabled("daily_limit_filter")
             /\ daily_signal_count <= risk_filters.max_daily_signals ) =>
                daily_signal_count' <= risk_filters.max_daily_signals ]_vars
    /\ [][ ( /\ Handles
             /\ RuleEnabled("daily_limit_filter")
             /\ daily_signal_count >= risk_filters.max_daily_signals ) =>
                last_eval'.verdict # "accepted" ]_vars

\* the rule is enabled and the counter is at its limit, yet more candidates
\* than the limit were accepted on the current date: a call that began before
\* the date changed accepted one after it, and the next call reset the
\* counter and accepted another
C5_Witness ==
    /\ RuleEnabled("daily_limit_filter")
    /\ daily_signal_count = risk_filters.max_daily_signals
    /\ accepted_today > risk_filters.max_daily_signals
    /\ last_eval.verdict = "accepted"

\* ------------------------------------------------------------------- C6
\* the candidate gets as far as the duplicate rule
ReachesDuplicateRule(sig) ==
    /\ ~FailsValidation(sig)
    /\ \A i \in NotAccepting(sig) :
          filter_rules[i].name \in {"duplicate_filter", "daily_limit_filter"}

C8_InvalidCandidateDropped ==
    /\ [][ (Handles /\ StructurallyInvalid(Candidate)) =>
             /\ last_eval'.verdict = "invalid"
             /\ last_eval'.evaluated = <<>>
             /\ last_eval'.reason \in {"validation_failed", "validation_error"}
             /\ stats'.filter_reasons[last_eval'.reason]
                   = DictGet(stats.filter_reasons, last_eval'.reason, 0) + 1
             /\ ReasonTotal(stats') = ReasonTotal(stats) + 1
             /\ stats'.total_processed = stats.total_processed + 1
             /\ stats'.accepted_signals = stats.accepted_signals
             /\ UNCHANGED <<filtered_signals, signal_history,
                            symbol_last_signal, daily_signal_count>>
             /\ pc' = "loop" ]_vars
    /\ [](\A i \in 1..Len(filtered_signals) :
            ~StructurallyInvalid(filtered_signals[i]))
    /\ [](\A i \in 1..Len(returned) : ~StructurallyInvalid(returned[i]))
    /\ [][ (Handles /\ last_eval.verdict = "invalid") =>
             ( last_eval'.verdict = "accepted"
                 <=> ( /\ ~FailsValidation(Candidate)
                       /\ PassesEveryRule(Candidate) ) ) ]_vars

\* the first candidate of a batch was dropped by validation and the second
\* was accepted and returned
C8_Witness ==
    /\ pc = "idle"
    /\ Len(returned) = 1
    /\ stats.total_processed = 2
    /\ stats.accepted_signals = 1
    /\ stats.total_filtered = 0
    /\ DOMAIN stats.filter_reasons = {"validation_failed"}
    /\ signal_history = returned

\* ------------------------------------------------------------------- C9
\* the first enabled rule that does not accept the candidate raises
FirstRuleRaises(sig) ==
    /\ NotAccepting(sig) # {}
    /\ LET first == CHOOSE i \in NotAccepting(sig) :
                       \A k \in NotAccepting(sig) : i <= k
       IN filter_func(filter_rules[first].name, sig, context) = Raise

\* C9: when the evaluation of a rule raises for a valid candidate, that
\* candidate is not accepted: it is counted as filtered (under no reason), it
\* is appended neither to the accepted list nor to the history, the
\* last-accepted times and the daily counter keep their values, and the call
\* stays in its loop; the candidate handled next is accepted exactly when it
\* is valid and passes every enabled rule.
C9_RaisingRuleFailsClosed ==
    /\ [][ ( /\ Handles
             /\ ~FailsValidation(Candidate)
             /\ FirstRuleRaises(Candidate) ) =>
               /\ last_eval'.verdict = "raised"
               /\ stats'.total_filtered = stats.total_filtered + 1
               /\ stats'.accepted_signals = stats.accepted_signals
               /\ stats'.filter_reasons = stats.filter_reasons
               /\ UNCHANGED <<filtered_signals, signal_history,
                              symbol_last_signal, daily_signal_count>>
               /\ pc' = "loop" ]_vars
    /\ [][ (Handles /\ last_eval.verdict = "raised") =>
             ( last_eval'.verdict = "accepted"
                 <=> ( /\ ~FailsValidation(Candidate)
                       /\ PassesEveryRule(Candidate) ) ) ]_vars

\* a rule raised for the first candidate of a batch and the second candidate
\* was accepted
C9_Witness ==
    /\ last_eval.verdict = "accepted"
    /\ last_eval.position = 2
    /\ stats.total_processed = 2
    /\ stats.total_filtered = 1
    /\ stats.filter_reasons = <<>>
    /\ filtered_signals = <<Val(last_eval.signal)>>

\* ------------------------------------------------------------------- C7
CountOf(signals, sym) ==
    Cardinality({ i \in 1..Len(signals) : signals[i].symbol = sym })

\* C7: the list filter_signals returns holds accepted candidates only, each
\* once, in order of non-increasing confidence; for every symbol it holds as
\* many signals as were accepted for the symbol, up to max_signals_per_symbol;
\* and an accepted candidate left out has no greater confidence than any
\* returned signal of its symbol.
C7_PostProcessing ==
    [][ (pc = "loop" /\ pc' = "idle") =>
          LET accepted == filtered_signals
              kept == returned'
              cap == max_signals_per_symbol
          IN /\ \A i \in 1..(Len(kept) - 1) :
                    kept[i].confidence >= kept[i + 1].confidence
             /\ \A i, j \in 1..Len(kept) : kept[i] = kept[j] => i = j
             /\ \A i \in 1..Len(kept) :
                    \E j \in 1..Len(accepted) : accepted[j] = kept[i]
             /\ \A j \in 1..Len(accepted) :
                    LET sym == accepted[j].symbol IN
                    /\ CountOf(kept, sym) <= cap
                    /\ CountOf(kept, sym) = Min(cap, CountOf(accepted, sym))
                    /\ (\A i \in 1..Len(kept) : kept[i] # accepted[j])
                          => \A i \in 1..Len(kept) :
                                kept[i].symbol = sym
                                   => kept[i].confidence
                                         >= accepted[j].confidence ]_vars

\* five candidates of one symbol were accepted in one call under a cap of 3
\* and the three of highest confidence were returned
C7_Witness ==
    /\ pc = "idle"
    /\ max_signals_per_symbol = 3
    /\ Len(signal_history) = 5
    /\ \A i \in 1..5 : signal_history[i].symbol = AAA
    /\ stats.accepted_signals = 5
    /\ Len(returned) = 3
    /\ returned[1].confidence = 90
    /\ returned[2].confidence = 90
    /\ returned[3].confidence = 75

\* ------------------------------------------------------------------ C10
\* C10 as stated: generate_signals always ends by handing a list to its
\* caller; no exception raised while the indicators are computed, or after,
\* reaches the caller.
C10_GenerateSignalsReturnsList == gen_result.kind \in {"none", "list"}

\* ------------------------------------------------------------------ C11
\* the closes the volatility rule looks at, and their rolling volatility:
\* one window over all of them
RecentCloses(sym) ==
    LET recent == Tail_n(context.market_data[sym], 20)
    IN [i \in 1..Len(recent) |-> recent[i].close]

RollingVolatility(prices) == calculate_volatility(prices, Len(prices) - 1)

ReachesVolatilityRule(sig) ==
    /\ ~FailsValidation(sig)
    /\ RuleEnabled("volatility_filter")
    /\ \A i \in NotAccepting(sig) : filter_rules[i].priority >= 5

\* C11 as stated: a candidate that reaches the volatility rule is rejected
\* with reason "high_volatility" when its symbol has market data with at
\* least 10 closes among the last 20 and their volatility is above
\* volatility_threshold, and the rule accepts it when there is no market
\* data or there are fewer than 10 closes.
C11_VolatilityRule ==
    [][ (Handles /\ ReachesVolatilityRule(Candidate)) =>
          IF /\ Candidate.symbol \in DOMAIN context.market_data
             /\ Len(RecentCloses(Candidate.symbol)) >= 10
          THEN LET volatility ==
                       RollingVolatility(RecentCloses(Candidate.symbol))
               IN ( /\ volatility # <<>>
                    /\ volatility[Len(volatility)]
                          > market_filters.volatility_threshold )
                     => /\ last_eval'.verdict = "rejected"
                        /\ last_eval'.reason = "high_volatility"
          ELSE last_eval'.reason # "high_volatility" ]_vars

\* ------------------------------------------------------------------- C12
\* the candidate passes validation and every rule before the blacklist rule
ReachesBlacklistRule(sig) ==
    /\ ~FailsValidation(sig)
    /\ RuleEnabled("blacklist_filter")
    /\ \A i \in NotAccepting(sig) : filter_rules[i].priority >= 6

\* C12 as stated: a candidate reaching the blacklist rule is rejected with
\* reason blacklisted when its symbol is a member of the blacklist, and
\* also when its symbol was handed to add_blacklist_symbol and not to
\* remove_blacklist_symbol since; a candidate whose symbol is neither is
\* not rejected by the rule.
C12_Blacklist ==
    [][ (Handles /\ ReachesBlacklistRule(Candidate)) =>
          /\ ( \/ Candidate.symbol \in risk_filters.blacklist_symbols
               \/ Candidate.symbol \in blacklist_requests )
                => /\ last_eval'.verdict = "rejected"
                   /\ last_eval'.reason = "blacklisted"
          /\ ( /\ Candidate.symbol \notin risk_filters.blacklist_symbols
               /\ Candidate.symbol \notin blacklist_requests )
                => last_eval'.reason # "blacklisted" ]_vars

\* ------------------------------------------------------------------- C13
\* the configuration switches the rule off
ConfigDisables(name) ==
    /\ ToggleKey(name) \in DOMAIN config
    /\ config[ToggleKey(name)] = FALSE

\* C13 as stated: a rule that the configuration switches off never rejects
\* a candidate, and the candidate is accepted exactly when every rule that
\* is not switched off accepts it.
C13_RulesToggle ==
    [][ (Handles /\ ~FailsValidation(Candidate)) =>
          /\ \A name \in AllRuleNames :
                ConfigDisables(name) => RuleOfReason(last_eval'.reason) # name
          /\ last_eval'.verdict = "accepted"
                <=> \A name \in AllRuleNames :
                       \/ ConfigDisables(name)
                       \/ filter_func(name, Candidate, context) = Accept ]_vars

\* ------------------------------------------------------------------- C14
IsSuffix(history, log) ==
    /\ Len(history) <= Len(log)
    /\ history = SubSeq(log, Len(log) - Len(history) + 1, Len(log))

\* C14: the history of the filter and the history of the generator never
\* hold more than 1000 entries and always are a suffix of the signals
\* accepted so far, in acceptance order; the append that would make the
\* history 1001 entries long leaves exactly the 500 signals accepted last
\* (followed, in the generator, by the signals the same call appends
\* after it).
C14_HistoryBound ==
    /\ [](/\ Len(signal_history) <= HistoryMax
          /\ Len(gen_signal_history) <= HistoryMax
          /\ IsSuffix(signal_history, accepted_log)
          /\ IsSuffix(gen_signal_history, gen_accepted_log))
    /\ [][ ( /\ Len(accepted_log') = Len(accepted_log) + 1
             /\ Len(signal_history) = HistoryMax )
             => signal_history' = Tail_n(accepted_log', HistoryKeep) ]_vars
    /\ [][ LET k == Len(gen_accepted_log') - Len(gen_accepted_log)
               after == Len(gen_signal_history) + k - (HistoryMax + 1)
           IN (k > 0 /\ after >= 0)
                => gen_signal_history'
                     = Tail_n(gen_accepted_log', HistoryKeep + after) ]_vars

\* the filter's history was just trimmed, or the generator's history was
\* trimmed by the first of the two signals of a call
C14_Witness ==
    \/ /\ Len(accepted_log) = HistoryMax + 1
       /\ Len(signal_history) = HistoryKeep
    \/ /\ Len(gen_accepted_log) = HistoryMax + 2
       /\ Len(gen_signal_history) = HistoryKeep + 1

\* ------------------------------------------------------------------- C15
\* C15 as stated: whatever is done to the first filter, the second filter's
\* configuration and rule list are those that its own constructor argument
\* and its own update_config calls produce, also when both filters were
\* constructed from the same mapping.
C15_InstanceIsolation ==
    /\ peer_config = peer_own_config
    /\ peer_filter_rules = initialize_filter_rules(peer_own_config)

\* ------------------------------------------------------------------- C16
\* everything a SignalFilter holds except its statistics
BesidesStats ==
    <<config, min_confidence, max_signals_per_symbol, signal_cooldown,
      market_filters, risk_filters, signal_history, symbol_last_signal,
      daily_signal_count, last_reset_date, filter_rules>>

CallerWrites ==
    \/ ~IsNone(stats_view) /\ ~IsNone(stats_view')
          /\ ~Val(stats_view).written /\ Val(stats_view').written
    \/ ~IsNone(blacklist_view) /\ ~IsNone(blacklist_view')
          /\ ~Val(blacklist_view).written /\ Val(blacklist_view').written

\* C16: reset_stats leaves total_processed, total_filtered,
\* accepted_signals at 0 and no per-reason count, and leaves the daily
\* counter, the history, the last-accepted times, the blacklist and the
\* rule list as they were; a caller writing to the value returned by
\* get_stats or by get_blacklist changes nothing the filter holds.
C16_StatsResetAndReadOnly ==
    [][ /\ (resets' = resets + 1)
            => /\ stats'.total_processed = 0
               /\ stats'.total_filtered = 0
               /\ stats'.accepted_signals = 0
               /\ stats'.filter_reasons = <<>>
               /\ BesidesStats' = BesidesStats
        /\ CallerWrites => /\ stats' = stats
                           /\ BesidesStats' = BesidesStats ]_vars

\* statistics reset with a history and a daily count in place, and both
\* returned values written to by the caller
C16_Witness ==
    /\ resets > 0
    /\ stats = EmptyStats
    /\ signal_history # <<>>
    /\ daily_signal_count > 0
    /\ ~IsNone(stats_view) /\ Val(stats_view).written
    /\ ~IsNone(blacklist_view) /\ Val(blacklist_view).written
    /\ Val(blacklist_view).value # risk_filters.blacklist_symbols

\* ------------------------------------------------------------------- C17
\* generate_signals emitted a signal for the symbol less than
\* signal_cooldown seconds ago
RecentlyEmitted(symbol) ==
    \E i \in 1..Len(gen_accepted_log) :
        /\ gen_accepted_log[i].symbol = symbol
        /\ now * 1000 - gen_accepted_log[i].timestamp < GenSignalCooldown * 1000

GenCalled == genVars' # genVars

\* C17: a symbol is in cooldown exactly while a signal was emitted for it
\* less than signal_cooldown seconds ago; a call for a symbol in cooldown
\* returns an empty list and leaves history and last-signal times alone;
\* a call changes the last-signal time of no symbol but its own, and of no
\* symbol at all when it emits nothing.
C17_GeneratorCooldown ==
    /\ [](\A symbol \in {AAA, BBB} :
             is_in_cooldown(symbol) <=> RecentlyEmitted(symbol))
    /\ [][ (GenCalled /\ RecentlyEmitted(gen_result'.symbol))
             => /\ gen_result'.kind = "list"
                /\ gen_result'.value = <<>>
                /\ UNCHANGED <<gen_last_signal_time, gen_signal_history>> ]_vars
    /\ [][ GenCalled =>
             \A symbol \in {AAA, BBB} :
                ( \/ symbol # gen_result'.symbol
                  \/ gen_result'.kind # "list"
                  \/ gen_result'.value = <<>> )
                  => DictGet(gen_last_signal_time', symbol, 0)
                       = DictGet(gen_last_signal_time, symbol, 0) ]_vars

\* a call for AAA was suppressed while AAA was in cooldown and BBB, for
\* which signals were emitted too, was called at another time
C17_Witness ==
    /\ gen_result.kind = "list"
    /\ gen_result.value = <<>>
    /\ gen_result.symbol = AAA
    /\ RecentlyEmitted(AAA)
    /\ BBB \in DOMAIN gen_last_signal_time
    /\ gen_last_signal_time[BBB] # gen_last_signal_time[AAA]

\* ------------------------------------------------------------------- C18
\* the documented duplicate test: among the last 10 history entries at most
\* 300 seconds old, one of the same symbol and side with a price within 1%
\* and a confidence within 0.1
DocumentedDuplicate(signal) ==
    LET recent == Tail_n(gen_signal_history, GenDupLookback) IN
    \E i \in 1..Len(recent) :
        /\ now * 1000 - recent[i].timestamp <= GenDupWindow * 1000
        /\ recent[i].symbol = signal.symbol
        /\ recent[i].side = signal.side
        /\ Abs(signal.price - recent[i].price) * 100 <= recent[i].price
        /\ Abs(signal.confidence - recent[i].confidence) <= 10

Emitted(result) == IF result.kind = "list" THEN result.value ELSE <<>>

\* C18 as stated: a valid candidate of sufficient confidence is missing
\* from what generate_signals emits exactly when the documented duplicate
\* test finds it a duplicate.
C18_GeneratorDuplicates ==
    [][ GenCalled =>
          \A k \in 1..Len(gen_result'.raw) :
             LET signal == gen_result'.raw[k] IN
             ( /\ validate_signal(signal) = <<>>
               /\ signal.confidence >= GenMinConfidence )
               => ( (\A e \in 1..Len(Emitted(gen_result')) :
                        Emitted(gen_result')[e] # signal)
                    <=> DocumentedDuplicate(signal) ) ]_vars

\* ------------------------------------------------------------------- C19
TechCalled == tech_result' # tech_result

DocumentedTotal(cfg, scores) ==
    ( (IF cfg.rsi_enabled THEN scores.rsi * TechRsiWeight ELSE 0)
      + (IF cfg.macd_enabled THEN scores.macd * TechMacdWeight ELSE 0)
      + (IF cfg.bb_enabled THEN scores.bollinger * TechBbWeight ELSE 0)
      + (IF cfg.sma_enabled THEN scores.ma * TechSmaWeight ELSE 0) ) \div 100

\* bars sufficient for every enabled indicator
SufficientBars(cfg, bars) ==
    /\ bars > 0
    /\ cfg.sma_enabled => bars >= TechSmaSlowPeriod
    /\ cfg.rsi_enabled => bars >= TechRsiPeriod
    /\ cfg.macd_enabled => bars >= TechMacdSlowPeriod
    /\ cfg.bb_enabled => bars >= TechBbPeriod

\* C20 as stated: with bars sufficient for every enabled indicator the
\* call ends with a list; the list is empty when |total_score| is below
\* the configured threshold, and otherwise holds a signal whose side is
\* BUY for a positive total and SELL otherwise, whose confidence is
\* min(|total_score|, 1) and whose strength is WEAK, MODERATE or STRONG.
C20_WeightedSynthesis ==
    [][ (TechCalled /\ SufficientBars(tech_result'.config, tech_result'.bars)) =>
          LET total_score == DocumentedTotal(tech_result'.config, tech_result'.scores)
              value == tech_result'.value
          IN /\ tech_result'.kind = "list"
             /\ Abs(total_score) < TechSignalThreshold => value = <<>>
             /\ \A i \in 1..Len(value) :
                   /\ Abs(total_score) >= TechSignalThreshold
                   /\ value[i].side = IF total_score > 0 THEN "BUY" ELSE "SELL"
                   /\ value[i].confidence = Min(Abs(total_score), 100)
                   /\ value[i].strength \in {"WEAK", "MODERATE", "STRONG"} ]_vars

\* ------------------------------------------------------------------- C21
\* the last two values of both averages, taken from the end of the lists
GoldenCross(fast_ma, slow_ma) ==
    /\ FLe(fast_ma[Len(fast_ma) - 1], slow_ma[Len(slow_ma) - 1])
    /\ FLt(slow_ma[Len(slow_ma)], fast_ma[Len(fast_ma)])
DeathCross(fast_ma, slow_ma) ==
    /\ FLe(slow_ma[Len(slow_ma) - 1], fast_ma[Len(fast_ma) - 1])
    /\ FLt(fast_ma[Len(fast_ma)], slow_ma[Len(slow_ma)])

\* C21: both crossover builders produce a BUY candidate exactly on a golden
\* cross (previous fast <= previous slow, current fast > current slow) and
\* a SELL candidate exactly on a death cross (previous fast >= previous
\* slow, current fast < current slow), the values being the last two of
\* each list; they produce nothing otherwise, nothing when a list has
\* fewer than 2 values, and the two crosses exclude each other.
C21_CrossoverDetection ==
    LET fast_ma == crossover_call.fast_ma
        slow_ma == crossover_call.slow_ma
        result == crossover_call.result
    IN crossover_call.op # "none" =>
         IF Len(fast_ma) < 2 \/ Len(slow_ma) < 2
         THEN result.kind = "None"
         ELSE /\ (result.kind = "Signal" /\ result.side = "BUY")
                    <=> GoldenCross(fast_ma, slow_ma)
              /\ (result.kind = "Signal" /\ result.side = "SELL")
                    <=> DeathCross(fast_ma, slow_ma)
              /\ result.kind = "None"
                    <=> ~(GoldenCross(fast_ma, slow_ma) \/ DeathCross(fast_ma, slow_ma))
              /\ ~(GoldenCross(fast_ma, slow_ma) /\ DeathCross(fast_ma, slow_ma))

\* a golden cross out of equal previous averages, found by the trading
\* generator, whose lists differ in length
C21_Witness ==
    /\ crossover_call.op = "generate_ma_crossover_signal"
    /\ Len(crossover_call.fast_ma) > Len(crossover_call.slow_ma)
    /\ Len(crossover_call.slow_ma) >= 2
    /\ crossover_call.fast_ma[Len(crossover_call.fast_ma) - 1]
         = crossover_call.slow_ma[Len(crossover_call.slow_ma) - 1]
    /\ crossover_call.result.kind = "Signal"
    /\ crossover_call.result.side = "BUY"

\* ------------------------------------------------------------------- C22
\* the sum of the prices s[i .. j], 1-based
RECURSIVE WindowSum(_, _, _)
WindowSum(s, i, j) == IF i > j THEN 0 ELSE s[i] + WindowSum(s, i + 1, j)

\* C22: calculate_sma(s, p) returns max(0, len(s) - p + 1) values, the i-th
\* being the mean of the p prices that start at the i-th; so it returns an
\* empty list, and does not raise, when len(s) < p.
C22_SmaWindows ==
    LET s == sma_call.prices
        period == sma_call.period
        result == sma_call.result
    IN sma_call.called =>
         /\ Len(result) = Max3(0, Len(s) - period + 1, 0)
         /\ \A i \in 1..Len(result) :
               result[i].n * period = WindowSum(s, i, i + period - 1) * result[i].d
         /\ Len(s) < period => result = <<>>

\* a series longer than the period, with a mean that is no whole number
C22_Witness ==
    /\ sma_call.called
    /\ sma_call.period = 3
    /\ Len(sma_call.prices) = 5
    /\ Len(sma_call.result) = 3
    /\ sma_call.result[2].d = 3

\* ------------------------------------------------------------------- C23
\* the value of an EMA list that belongs to a bar of the series (bars
\* counted from 1): the first value of a list of period p belongs to bar p
AtBar(ema, period, bar) == ema[bar - period + 1]

\* C23: for fast < slow, calculate_macd returns a macd_line of
\* max(0, len(series) - slow + 1) values, the k-th being the fast EMA minus
\* the slow EMA, both of the bar slow + k - 1; a signal_line that is the EMA
\* of the macd_line over the signal period, empty when the macd_line is
\* shorter than that; and a histogram as long as the signal_line, whose
\* values are macd_line minus signal_line, both counted from the end.
C23_MacdAlignment ==
    LET series == macd_call.prices
        fast == macd_call.fast_period
        slow == macd_call.slow_period
        signal == macd_call.signal_period
        macd_line == macd_call.result.macd_line
        signal_line == macd_call.result.signal_line
        histogram == macd_call.result.histogram
    IN macd_call.called =>
         /\ Len(macd_line) = Max3(0, Len(series) - slow + 1, 0)
         /\ \A k \in 1..Len(macd_line) :
               macd_line[k] = FSub(AtBar(macd_call.fast_ema, fast, slow + k - 1),
                                   AtBar(macd_call.slow_ema, slow, slow + k - 1))
         /\ signal_line = calculate_ema(macd_line, signal)
         /\ Len(macd_line) < signal => signal_line = <<>>
         /\ Len(histogram) = Len(signal_line)
         /\ \A j \in 0..(Len(histogram) - 1) :
               histogram[Len(histogram) - j]
                 = FSub(macd_line[Len(macd_line) - j],
                        signal_line[Len(signal_line) - j])

\* a call whose fast EMA starts two bars before the slow one and whose
\* signal line is shorter than the macd line, with a non-zero histogram
C23_Witness ==
    /\ macd_call.called
    /\ macd_call.fast_period = 1
    /\ macd_call.slow_period = 3
    /\ macd_call.signal_period = 2
    /\ Len(macd_call.result.macd_line) = 3
    /\ Len(macd_call.result.histogram) = 2
    /\ macd_call.result.histogram[2].n # 0
    /\ macd_call.result.macd_line[1] # macd_call.result.macd_line[3]

\* ------------------------------------------------------------------- C24
\* the symbols of the candidates accepted so far in the running call
AcceptedSymbols == { filtered_signals[i].symbol : i \in 1..Len(filtered_signals) }

\* C24: under a positive cooldown a filter_signals call accepts at most one
\* candidate per symbol: a candidate whose symbol was accepted earlier in
\* the same call is not accepted, and is rejected for "cooldown" when the
\* chain gets to that rule; so the accepted candidates of a call are of
\* different symbols and, the cap being 1 or more, all of them are returned.
C24_OnePerSymbolPerBatch ==
    /\ [](signal_cooldown > 0 =>
            \A i, j \in 1..Len(filtered_signals) :
               i # j => filtered_signals[i].symbol # filtered_signals[j].symbol)
    /\ [][ (Handles /\ signal_cooldown > 0 /\ Candidate.symbol \in AcceptedSymbols) =>
             /\ last_eval'.verdict # "accepted"
             /\ "cooldown_filter" \in { last_eval'.evaluated[i] : i \in 1..Len(last_eval'.evaluated) }
                   => last_eval'.reason = "cooldown" ]_vars
    /\ [][ (pc = "loop" /\ pc' = "idle" /\ signal_cooldown > 0
              /\ max_signals_per_symbol >= 1) =>
             /\ Len(returned') = Len(filtered_signals)
             /\ \A i \in 1..Len(filtered_signals) :
                   \E j \in 1..Len(returned') : returned'[j] = filtered_signals[i] ]_vars

\* in a call that began before the clock advanced, a second candidate of an
\* accepted symbol was rejected for cooldown and one of another symbol was
\* accepted
C24_Witness ==
    /\ pc = "loop"
    /\ signal_cooldown = 1
    /\ now > context.current_time
    /\ Len(filtered_signals) = 2
    /\ last_eval.verdict = "rejected"
    /\ last_eval.reason = "cooldown"
    /\ Val(last_eval.signal).symbol \in AcceptedSymbols

\* ------------------------------------------------------------------- C25
\* C25: at any time since construction or the last reset_stats,
\* accepted_signals + total_filtered <= total_processed, with equality
\* exactly when no candidate processed since then failed structural
\* validation; accepted_signals grows by one with every candidate that
\* passes the chain, whatever the per-symbol cap removes afterwards, so the
\* list returned is never longer than the number accepted in the call.
C25_StatsAccounting ==
    /\ [](stats.accepted_signals + stats.total_filtered <= stats.total_processed)
    /\ [](stats.accepted_signals + stats.total_filtered = stats.total_processed
            <=> invalid_seen = 0)
    /\ [][ Handles =>
             /\ stats'.total_processed = stats.total_processed + 1
             /\ stats'.accepted_signals - stats.accepted_signals
                  = Len(filtered_signals') - Len(filtered_signals) ]_vars
    /\ [][ (pc = "loop" /\ pc' = "idle") =>
             Len(returned') <= Len(filtered_signals) ]_vars

\* one call since construction: three candidates processed, one invalid,
\* two accepted, of which the cap let one through
C25_Witness ==
    /\ pc = "idle"
    /\ resets = 0
    /\ stats.total_processed = 3
    /\ invalid_seen = 1
    /\ stats.accepted_signals = 2
    /\ stats.total_filtered = 0
    /\ Len(returned) = 1

\* ------------------------------------------------------------------- C26
\* a filter_signals call with an empty list
EmptyCall == ~last_call_empty /\ last_call_empty'

\* C26: a filter_signals call with an empty list returns an empty list and
\* leaves statistics, history, last-accepted times, daily counter and
\* last-reset date as they are, whatever the calendar date; the daily
\* counter is reset by the next call with a non-empty list that follows a
\* change of date.
C26_EmptyCallChangesNothing ==
    /\ [][ EmptyCall =>
             /\ returned' = <<>>
             /\ UNCHANGED <<stats, signal_history, symbol_last_signal,
                            daily_signal_count, last_reset_date>> ]_vars
    /\ [][ (pc = "idle" /\ pc' = "loop" /\ today # last_reset_date) =>
             /\ last_reset_date' = today
             /\ daily_signal_count' = 0 ]_vars

\* the latest call was an empty one, on a later date than the last reset,
\* and the counter still holds the acceptance of the day before
C26_Witness ==
    /\ last_call_empty
    /\ pc = "idle"
    /\ returned = <<>>
    /\ today # last_reset_date
    /\ daily_signal_count > 0

\* ------------------------------------------------------------------- C27
\* an update_config call (one that changes the configuration mapping)
UpdateCall == config' # config

\* C27: update_config sets min_confidence, max_signals_per_symbol and
\* signal_cooldown to the values the new configuration names and rebuilds
\* the rule list, in which only the volatility and the daily-limit rule
\* depend on the configuration; min_volume, min_price,
\* volatility_threshold, max_daily_signals and the blacklist stay as they
\* are, also when the new configuration names them, and so do history,
\* last-accepted times, daily counter and statistics.
C27_UpdateConfigFrame ==
    [][ UpdateCall =>
          /\ UNCHANGED <<market_filters, risk_filters>>
          /\ UNCHANGED <<signal_history, symbol_last_signal, daily_signal_count,
                         last_reset_date, stats>>
          /\ min_confidence' = config'.min_confidence
          /\ max_signals_per_symbol' = config'.max_signals_per_symbol
          /\ signal_cooldown' = config'.signal_cooldown
          /\ \A name \in AllRuleNames :
                (\E i \in 1..Len(filter_rules') : filter_rules'[i].name = name)
                  <=> \/ name \notin {"volatility_filter", "daily_limit_filter"}
                      \/ name = "volatility_filter" /\ config'.volatility_filter_enabled
                      \/ name = "daily_limit_filter" /\ config'.daily_limit_enabled ]_vars

\* after an acceptance the configuration names another limit, blacklist
\* and market thresholds than the ones in force
C27_Witness ==
    /\ config.max_daily_signals = 0
    /\ risk_filters.max_daily_signals = 20
    /\ config.blacklist_symbols = {AAA}
    /\ risk_filters.blacklist_symbols = {}
    /\ config.min_volume = 5
    /\ market_filters.min_volume = 1000
    /\ min_confidence = 80
    /\ signal_history # <<>>
    /\ stats.accepted_signals = 2

\* ------------------------------------------------------------------- C28
\* a clear_history call
ClearCall == history_clears' # history_clears

\* nothing has been accepted since the last clear_history call
JustCleared ==
    history_clears > 0 /\ signal_history = <<>> /\ symbol_last_signal = <<>>

\* C28: clear_history empties the history and the last-accepted times and
\* leaves the daily counter, the last-reset date, the blacklist and the
\* statistics unchanged; a candidate processed while nothing has been
\* accepted since the call is not rejected by the cooldown or the duplicate
\* rule, and is not accepted when the daily limit rule is enabled and the
\* counter has reached the limit.
C28_ClearHistory ==
    [][ /\ ClearCall =>
            /\ signal_history' = <<>>
            /\ symbol_last_signal' = <<>>
            /\ UNCHANGED <<daily_signal_count, last_reset_date, risk_filters,
                           market_filters, stats>>
        /\ Handles /\ JustCleared =>
            /\ last_eval'.reason \notin {"cooldown", "duplicate"}
            /\ ( /\ RuleEnabled("daily_limit_filter")
                 /\ daily_signal_count >= risk_filters.max_daily_signals )
               => last_eval'.verdict # "accepted" ]_vars

\* the first candidate after clear_history has been rejected by the daily
\* limit reached before the call; its symbol and side were accepted before
C28_Witness ==
    /\ JustCleared
    /\ pc = "loop"
    /\ last_eval.verdict = "rejected"
    /\ last_eval.reason = "daily_limit"
    /\ daily_signal_count = 2
    /\ stats.accepted_signals = 2
    /\ Val(last_eval.signal).symbol = AAA
    /\ Val(last_eval.signal).side = accepted_log[1].side
    /\ accepted_log[1].symbol = AAA
    /\ now * 1000 - accepted_log[1].timestamp < signal_cooldown * 1000

\* the first candidate after clear_history has been accepted although one
\* of its symbol and side had been accepted less than a cooldown before
C28_WitnessAccepted ==
    /\ history_clears = 1
    /\ Len(signal_history) = 1
    /\ stats.accepted_signals = 2
    /\ accepted_log[1].symbol = AAA
    /\ accepted_log[2].symbol = AAA
    /\ signal_cooldown = 300

\* ------------------------------------------------------------------- C29
\* a call on the strategy
StrategyCalled(op) ==
    strategy_call'.n = strategy_call.n + 1 /\ strategy_call'.op = op

\* C29: pause changes the state only from RUNNING to PAUSED, resume only
\* from PAUSED to RUNNING, stop sets STOPPED from any state, so that pause
\* and resume never leave STOPPED; the initialization is entered at most
\* once per instance, a later initialize call changing nothing whatever
\* state the first one left; process_market_data returns None when the
\* state is not RUNNING, and leaves the state as it is.
C29_Lifecycle ==
    /\ [](init_runs <= 1)
    /\ [][ /\ StrategyCalled("pause") =>
                strategy_state' = IF strategy_state = "RUNNING" THEN "PAUSED"
                                  ELSE strategy_state
           /\ StrategyCalled("resume") =>
                strategy_state' = IF strategy_state = "PAUSED" THEN "RUNNING"
                                  ELSE strategy_state
           /\ StrategyCalled("stop") => strategy_state' = "STOPPED"
           /\ ( /\ strategy_state = "STOPPED"
                /\ StrategyCalled("pause") \/ StrategyCalled("resume") )
              => strategy_state' = "STOPPED"
           /\ StrategyCalled("initialize") /\ init_promise =>
                UNCHANGED <<strategy_state, init_promise, init_awaiting, init_runs>>
           /\ StrategyCalled("process_market_data") =>
                /\ strategy_state # "RUNNING" => strategy_call'.result = "None"
                /\ UNCHANGED strategy_state ]_vars

\* a second initialize call has returned without doing anything after the
\* first one failed and left ERROR
C29_Witness ==
    /\ strategy_call.op = "initialize"
    /\ strategy_call.promised
    /\ strategy_call.from = "ERROR"
    /\ strategy_state = "ERROR"
    /\ init_runs = 1

\* pause and resume have been called on a stopped strategy
C29_WitnessStopped ==
    /\ strategy_call.op = "resume"
    /\ strategy_call.from = "STOPPED"
    /\ strategy_state = "STOPPED"
    /\ strategy_call.n = MaxStrategyCalls

\* ------------------------------------------------------------------- C30
\* the latest send_with_retry call has ended
SendEnded == send_call.outcome \notin {"none", "running"}

\* C30: a send_with_retry call makes at most max_retries calls of
\* send_notification, none of them after one that returned True and none
\* while the channel is disabled or not ACTIVE, and when it has ended it
\* has updated the statistics once (total_sent + 1, and success_count + 1
\* or failure_count + 1), with error_count 0 if a send returned True and
\* one more than before if none did.
C30_SendWithRetry ==
    /\ send_call.sends <= max_retries
    /\ ~send_call.after_true
    /\ ~send_call.unavailable
    /\ SendEnded =>
          /\ send_call.updates = 1
          /\ statistics.total_sent = send_call.before.total_sent + 1
          /\ statistics.success_count + statistics.failure_count
                = send_call.before.success_count + send_call.before.failure_count + 1
          /\ statistics.success_count =
                send_call.before.success_count + (IF send_call.true_seen THEN 1 ELSE 0)
          /\ error_count = IF send_call.true_seen THEN 0
                           ELSE send_call.errors_before + 1

\* the part of C30 that the code keeps: the number of attempts, the test
\* of the channel before every attempt, and the accounting of a call in
\* which no send returned True
C30_AttemptsBounded ==
    /\ send_call.sends <= max_retries
    /\ attempt <= max_retries
    /\ ~send_call.unavailable
    /\ SendEnded /\ ~send_call.true_seen =>
          /\ send_call.updates = 1
          /\ statistics = update_statistics(send_call.before, FALSE)
          /\ error_count = send_call.errors_before + 1

\* a call in which the first send returned True has gone on to the last
\* attempt and has ended with four updates of the statistics
C30_Reached ==
    /\ SendEnded
    /\ send_call.n = 1
    /\ send_call.sends = 3
    /\ send_call.after_true
    /\ statistics = [total_sent |-> 4, success_count |-> 3, failure_count |-> 1]
    /\ error_count = 1

====
